---- MODULE Spec2Model ----
(***************************************************************************)
(* nat-traversal: the Relay (NATTraversalServer: two SocketListeners that  *)
(* pair SocketPipes) and the Agent (NATTraversalClient: a pool of          *)
(* SocketPipes towards the relay).  Node.js runs every event handler to    *)
(* completion, so one action is one handler together with everything it    *)
(* calls synchronously (emit() calls its listeners synchronously).         *)
(***************************************************************************)
EXTENDS Integers, Sequences, FiniteSets, TLC

(***************************************************************************)
(* Bounds of the model.                                                    *)
(***************************************************************************)
\* connections the Relay accepts in one run
MaxPipes == 3
\* 'data' events the Relay handles in one run without TLS
MaxData == 2
\* 'data' events the Relay handles in one run with TLS (tunnel keys in use)
MaxKeyData == 1
\* largest relayNumConn of the Agent
MaxNumConn == 2
\* pipes the Agent creates in one run
MaxAgentPipes == 3
\* 'data' events the Agent handles in one run
MaxAgentData == 2
\* connections the Relay accepts in one run of the Relay with the Agent
MaxSysPipes == 5
\* chunks the public clients send in one run of the Relay with the Agent
MaxSysData == 1
\* chunks the targets send in one run of the Relay with the Agent and its
\* targets
MaxTunnelData == 1

(***************************************************************************)
(* Bytes, strings and Buffers.  A Buffer is a sequence of byte values, a   *)
(* JavaScript string a sequence of UTF-16 code units (named by strings).   *)
(***************************************************************************)
Min(a, b) == IF a < b THEN a ELSE b

RECURSIVE Flatten(_)
Flatten(chunks) ==
  IF chunks = <<>> THEN <<>> ELSE Head(chunks) \o Flatten(Tail(chunks))

\* socket.write(string) sends the UTF-8 encoding of the string
Utf8EncodeChar(ch) ==
  IF ch = "a" THEN <<97>>
  ELSE IF ch = "b" THEN <<98>>
  ELSE <<195, 169>>    \* "U+00E9"

RECURSIVE Utf8Encode(_)
Utf8Encode(str) ==
  IF str = <<>> THEN <<>> ELSE Utf8EncodeChar(Head(str)) \o Utf8Encode(Tail(str))

\* Buffer.toString(): UTF-8 decoding, an invalid or cut sequence gives U+FFFD
RECURSIVE Utf8Decode(_)
Utf8Decode(bytes) ==
  IF bytes = <<>> THEN <<>>
  ELSE IF bytes[1] = 97 THEN <<"a">> \o Utf8Decode(Tail(bytes))
  ELSE IF bytes[1] = 98 THEN <<"b">> \o Utf8Decode(Tail(bytes))
  ELSE IF bytes[1] = 195 /\ Len(bytes) >= 2 /\ bytes[2] = 169
    THEN <<"U+00E9">> \o Utf8Decode(SubSeq(bytes, 3, Len(bytes)))
  ELSE <<"U+FFFD">> \o Utf8Decode(Tail(bytes))

\* buf.toString(undefined, start, end): the bytes [start, end) decoded
BufferToString(buf, start, end) ==
  Utf8Decode(SubSeq(buf, start + 1, Min(end, Len(buf))))

\* buf.slice(start)
BufferSlice(buf, start) == SubSeq(buf, start + 1, Len(buf))

(***************************************************************************)
(* Inputs the environment can present.                                     *)
(***************************************************************************)
\* relaySecret: none, an ASCII secret, a secret with a non-ASCII character
Secrets == { <<>>, <<"a", "b">>, <<"U+00E9">> }

\* the chunks a peer can send to a pipe whose options.secret is secret: two
\* payloads (the first shorter than either secret, neither starting with one)
\* and, when there is a secret, its encoding alone and followed by a payload
Payloads == { <<97>>, <<98, 97>> }

ChunksFor(secret) ==
  IF secret = <<>> THEN Payloads
  ELSE Payloads \cup { Utf8Encode(secret), Utf8Encode(secret) \o <<97>> }

AllChunks == UNION { ChunksFor(secret) : secret \in Secrets }

\* options.tls of the two listeners, and their options.tlsRequestCert
TlsOptions(relay, public, relayRequestCert, publicRequestCert) ==
  [ relay |-> relay, public |-> public,
    requestCert |-> [ relay |-> relayRequestCert, public |-> publicRequestCert ] ]

NoTls == TlsOptions(FALSE, FALSE, FALSE, FALSE)

\* the configurations: [secret: relaySecret, tls: the TLS options of both
\* listeners (a TLS listener here requests client certificates), data: 'data'
\* events]
Configs ==
  { [secret |-> sec, tls |-> NoTls, data |-> MaxData] : sec \in Secrets }
  \cup
  { [secret |-> <<>>, tls |-> TlsOptions(TRUE, pub, TRUE, pub), data |-> MaxKeyData]
      : pub \in BOOLEAN }

\* configurations with TLS on the relay listener, client certificates
\* requested or not
CertConfigs ==
  { [secret |-> <<>>, tls |-> TlsOptions(TRUE, pub, rc, pub /\ pc), data |-> MaxKeyData]
      : pub \in BOOLEAN, rc \in BOOLEAN, pc \in BOOLEAN }

\* common names of the peer certificates
CertCNs == { "A", "null" }

Listeners == { "relay", "public" }

OtherListener(l) == IF l = "relay" THEN "public" ELSE "relay"

\* the JavaScript value null (tunnelKey of a listener without TLS)
NullKey == "#null"

\* default of NATTraversalServer: the identity
fnCertCnToTunnelKey(certCn) == certCn

\* a value used as a property name of an object is converted to a string
PropKey(tunnelKey) == IF tunnelKey = NullKey THEN "null" ELSE tunnelKey

PropKeys == { PropKey(k) : k \in {NullKey} \cup { fnCertCnToTunnelKey(cn) : cn \in CertCNs } }

(***************************************************************************)
(* State of the Relay.                                                     *)
(***************************************************************************)
VARIABLES
  relaySecret,   \* options.relaySecret of NATTraversalServer
  tls,           \* options.tls and options.tlsRequestCert of each SocketListener
  socketPipeId,  \* the module-level id counter
  pipes,         \* id -> the fields of the SocketPipe with that id
  sock,          \* id -> state of the socket of that pipe
  pendingSocketPipes,  \* listener -> property key -> sequence of pipe ids
  activeSocketPipes,   \* listener -> property key -> sequence of pipe ids
  out,           \* history: id -> the bytes written to the socket of that pipe
  recv,          \* history: id -> the chunks received on the socket of that pipe
  hist,          \* history: id -> what happened to the pipe
  threw,         \* history: a handler threw
  listening,     \* the servers of the two listeners accept connections
  dataLeft       \* 'data' events the run may still handle

relayVars == << relaySecret, tls, socketPipeId, pipes, sock, pendingSocketPipes,
                activeSocketPipes, out, recv, hist, threw, listening, dataLeft >>

(***************************************************************************)
(* State of the Agent.                                                     *)
(***************************************************************************)
VARIABLES
  agentSecret,    \* options.relaySecret of NATTraversalClient
  relayNumConn,   \* options.relayNumConn
  started,        \* start() was called
  agentPipeId,    \* the module-level id counter of the Agent
  agentPipes,     \* id -> the fields of the Agent's SocketPipe with that id
  socketPipes,    \* NATTraversalClient.socketPipes: sequence of pipe ids
  terminating,    \* NATTraversalClient.terminating
  timers,         \* replacement timers (setTimeout) that have not fired yet
  relayOut,       \* history: id -> the bytes written to the relay socket
  targetOut,      \* history: id -> the bytes written to the target socket
  relayIn,        \* history: id -> the chunks received on the relay socket
  agentHist,      \* history: id -> the replacements the pipe has caused
  agentDataLeft   \* 'data' events the run may still handle

agentVars == << agentSecret, relayNumConn, started, agentPipeId, agentPipes,
                socketPipes, terminating, timers, relayOut, targetOut, relayIn,
                agentHist, agentDataLeft >>

(***************************************************************************)
(* The connections between the Agent and the Relay.                        *)
(***************************************************************************)
VARIABLES
  link,      \* Agent pipe -> the Relay pipe that holds the other end of its
             \* relay socket, once the connection is made
  toRelay,   \* Agent pipe -> bytes of relayOut the Relay has received
  toAgent    \* Agent pipe -> bytes written by the Relay the Agent has received

linkVars == << link, toRelay, toAgent >>

vars == << relayVars, agentVars, linkVars >>

PipeIds == 1 .. MaxPipes

\* the pipes constructed so far
Created == 1 .. (socketPipeId - 1)

\* pairedSocket = 0 stands for undefined; a socket is named by its pipe's id;
\* timer: the setTimeout of the pipe ("none", "armed", "fired")
NewPipe(type, tunnelKey, secret) ==
  [ type |-> type, tunnelKey |-> tunnelKey, secret |-> secret,
    pairedSocket |-> 0, authorized |-> FALSE, buffer |-> <<>>,
    timer |-> "none" ]

\* history of one pipe: assignments to pairedSocket, emissions of 'new' for it,
\* its rank among the pipes emitted as 'new', the number of chunks it had
\* received when it was activated, and whether the socket it was paired with
\* was open then, whether its socket has emitted 'timeout', and whether a
\* write of the pipe to its paired socket has failed
NewHist ==
  [ pairCount |-> 0, newCount |-> 0, newSeq |-> 0, preLen |-> 0, toOpen |-> FALSE,
    timedOut |-> FALSE, writeFailed |-> FALSE ]

\* the part of the state the handlers work on; exc: the running handler threw
RelayState ==
  [ pipes |-> pipes, sock |-> sock, pending |-> pendingSocketPipes,
    active |-> activeSocketPipes, out |-> out, recv |-> recv, hist |-> hist,
    exc |-> FALSE ]

(***************************************************************************)
(* net.Socket, as far as the Relay uses it.                                *)
(***************************************************************************)
\* socket.destroy(): no more I/O on the socket; its 'close' event comes later
SocketDestroy(s, id) ==
  IF s.sock[id] = "open" THEN [s EXCEPT !.sock[id] = "destroyed"] ELSE s

\* socket.write(data): nothing is sent on a socket that was destroyed
SocketWrite(s, id, data) ==
  IF s.sock[id] = "open" THEN [s EXCEPT !.out[id] = @ \o data] ELSE s

RECURSIVE SocketWriteAll(_, _, _)
SocketWriteAll(s, id, chunks) ==
  IF chunks = <<>> THEN s
  ELSE SocketWriteAll(SocketWrite(s, id, Head(chunks)), id, Tail(chunks))

(***************************************************************************)
(* SocketListener: the pending and active queues.                          *)
(***************************************************************************)
\* array.indexOf(x) then array.splice(i, 1)
RECURSIVE RemoveFirst(_, _)
RemoveFirst(seq, x) ==
  IF seq = <<>> THEN <<>>
  ELSE IF Head(seq) = x THEN Tail(seq)
  ELSE <<Head(seq)>> \o RemoveFirst(Tail(seq), x)

_hasPendingSocketPipes(s, this, tunnelKey) ==
  Len(s.pending[this][PropKey(tunnelKey)]) > 0

\* mutant: the pipe is returned and left in the queue (no splice)
_getPendingSocketPipe_NoSplice(s, this, tunnelKey) ==
  [ pipe |-> s.pending[this][PropKey(tunnelKey)][1], s |-> s ]

\* mutant: the youngest pending pipe is taken (pop)
_getPendingSocketPipe_Pop(s, this, tunnelKey) ==
  LET q == s.pending[this][PropKey(tunnelKey)]
  IN [ pipe |-> q[Len(q)],
       s |-> [s EXCEPT !.pending[this][PropKey(tunnelKey)] = SubSeq(q, 1, Len(q) - 1)] ]

\* pipe: the pipe returned, element 0; s: the state after splice(0, 1)
_getPendingSocketPipe(s, this, tunnelKey) ==
  [ pipe |-> s.pending[this][PropKey(tunnelKey)][1],
    s |-> [s EXCEPT !.pending[this][PropKey(tunnelKey)] = Tail(@)] ]

\* mutant: the pipe is not recorded as active
_addActiveSocketPipe_Noop(s, this, p) == s

_addActiveSocketPipe(s, this, p) ==
  [s EXCEPT !.active[this][PropKey(s.pipes[p].tunnelKey)] = Append(@, p)]

_addPendingSocketPipe(s, this, p) ==
  [s EXCEPT !.pending[this][PropKey(s.pipes[p].tunnelKey)] = Append(@, p)]

\* mutant: the first pipe of each array is removed, whichever it is
_removeSocketPipe_Shift(s, this, p) ==
  LET k == PropKey(s.pipes[p].tunnelKey)
      Shift(seq) == IF seq = <<>> THEN <<>> ELSE Tail(seq)
  IN [s EXCEPT !.pending[this][k] = Shift(@),
               !.active[this][k] = Shift(@)]

\* the array without x, the last element moved to the place of x
SwapRemove(seq, x) ==
  IF ~(\E i \in 1 .. Len(seq) : seq[i] = x) THEN seq
  ELSE LET i == CHOOSE j \in 1 .. Len(seq) : seq[j] = x
           front == SubSeq(seq, 1, Len(seq) - 1)
       IN IF i = Len(seq) THEN front ELSE [front EXCEPT ![i] = seq[Len(seq)]]

\* mutant: the place of the removed pipe is filled with the last pipe
_removeSocketPipe_Swap(s, this, p) ==
  LET k == PropKey(s.pipes[p].tunnelKey)
  IN [s EXCEPT !.pending[this][k] = SwapRemove(@, p),
               !.active[this][k] = SwapRemove(@, p)]

\* mutant: the pipe is removed from the pending array only
_removeSocketPipe_PendingOnly(s, this, p) ==
  LET k == PropKey(s.pipes[p].tunnelKey)
  IN [s EXCEPT !.pending[this][k] = RemoveFirst(@, p)]

_removeSocketPipe(s, this, p) ==
  LET k == PropKey(s.pipes[p].tunnelKey)
  IN [s EXCEPT !.pending[this][k] = RemoveFirst(@, p),
               !.active[this][k] = RemoveFirst(@, p)]

(***************************************************************************)
(* SocketPipe of the Relay.                                                *)
(***************************************************************************)
\* mutant: terminate() leaves the socket alone
SocketPipe_terminate_Noop(s, p) == s

SocketPipe_terminate(s, p) == SocketDestroy(s, p)

\* mutant: the chunks are written and kept (no buffer.length = 0)
_writeBuffer_Keep(s, p) ==
  IF s.pipes[p].authorized /\ Len(s.pipes[p].buffer) > 0
  THEN SocketWriteAll(s, s.pipes[p].pairedSocket, s.pipes[p].buffer)
  ELSE s

_writeBuffer(s, p) ==
  IF s.pipes[p].authorized /\ Len(s.pipes[p].buffer) > 0
  THEN [ SocketWriteAll(s, s.pipes[p].pairedSocket, s.pipes[p].buffer)
           EXCEPT !.pipes[p].buffer = <<>> ]
  ELSE s

\* mutant: the buffered chunks are not written on activation
activate_NoFlush(s, p, pairedSocket) ==
  IF s.pipes[p].pairedSocket # 0
  THEN [s EXCEPT !.exc = TRUE]
  ELSE [s EXCEPT !.pipes[p].pairedSocket = pairedSocket,
                 !.hist[p].pairCount = @ + 1,
                 !.hist[p].preLen = Len(s.recv[p]),
                                          !.hist[p].toOpen = (s.sock[pairedSocket] = "open")]

\* mutant: the pairing is announced by a byte written to the paired socket
activate_Announce(s, p, pairedSocket) ==
  IF s.pipes[p].pairedSocket # 0
  THEN [s EXCEPT !.exc = TRUE]
  ELSE _writeBuffer(SocketWrite([s EXCEPT !.pipes[p].pairedSocket = pairedSocket,
                                          !.hist[p].pairCount = @ + 1,
                                          !.hist[p].preLen = Len(s.recv[p]),
                                          !.hist[p].toOpen = (s.sock[pairedSocket] = "open")],
                                pairedSocket, <<97>>), p)

\* mutant: the buffer is flushed and pairedSocket stays undefined
activate_Unpaired(s, p, pairedSocket) ==
  IF s.pipes[p].pairedSocket # 0
  THEN [s EXCEPT !.exc = TRUE]
  ELSE _writeBuffer([s EXCEPT !.hist[p].pairCount = @ + 1,
                              !.hist[p].preLen = Len(s.recv[p])], p)

activate(s, p, pairedSocket) ==
  IF s.pipes[p].pairedSocket # 0
  THEN [s EXCEPT !.exc = TRUE]
  ELSE _writeBuffer([s EXCEPT !.pipes[p].pairedSocket = pairedSocket,
                              !.hist[p].pairCount = @ + 1,
                              !.hist[p].preLen = Len(s.recv[p]),
                                          !.hist[p].toOpen = (s.sock[pairedSocket] = "open")], p)

\* mutant: the lookup misses the pipes that wait, the arriving pipe is enqueued
activateSocketPipe_Enqueue(s, this, otherSocketListener, connectingSocketPipe) ==
  _addPendingSocketPipe(s, otherSocketListener, connectingSocketPipe)

\* mutant: a pipe that finds no counterpart is enqueued at the listener that
\* was searched
activateSocketPipe_EnqueueThis(s, this, otherSocketListener, connectingSocketPipe) ==
  LET tunnelKey == s.pipes[connectingSocketPipe].tunnelKey IN
  IF _hasPendingSocketPipes(s, this, tunnelKey)
  THEN LET got == _getPendingSocketPipe(s, this, tunnelKey)
           pendingSocketPipe == got.pipe
           s1 == got.s
           s2 == activate(s1, connectingSocketPipe, pendingSocketPipe)
           s3 == _addActiveSocketPipe(s2, this, pendingSocketPipe)
           s4 == activate(s3, pendingSocketPipe, connectingSocketPipe)
           s5 == _addActiveSocketPipe(s4, otherSocketListener, connectingSocketPipe)
       IN IF s2.exc THEN s2 ELSE IF s4.exc THEN s4 ELSE s5
  ELSE _addPendingSocketPipe(s, this, connectingSocketPipe)

activateSocketPipe(s, this, otherSocketListener, connectingSocketPipe) ==
  LET tunnelKey == s.pipes[connectingSocketPipe].tunnelKey IN
  IF _hasPendingSocketPipes(s, this, tunnelKey)
  THEN LET got == _getPendingSocketPipe(s, this, tunnelKey)
           pendingSocketPipe == got.pipe
           s1 == got.s
           s2 == activate(s1, connectingSocketPipe, pendingSocketPipe)
           s3 == _addActiveSocketPipe(s2, this, pendingSocketPipe)
           s4 == activate(s3, pendingSocketPipe, connectingSocketPipe)
           s5 == _addActiveSocketPipe(s4, otherSocketListener, connectingSocketPipe)
       IN IF s2.exc THEN s2 ELSE IF s4.exc THEN s4 ELSE s5
  ELSE _addPendingSocketPipe(s, otherSocketListener, connectingSocketPipe)

\* the 'authorized' listener of _createSocketPipe emits 'new'; the 'new' listener
\* of NATTraversalServer.start calls activateSocketPipe on the other listener
\* mutant: the 'new' listener calls activateSocketPipe on the listener that
\* accepted the pipe
OnAuthorized_SameListener(s, p) ==
  LET l == s.pipes[p].type
      rank == 1 + Cardinality({ q \in DOMAIN s.hist : s.hist[q].newCount > 0 })
  IN activateSocketPipe([s EXCEPT !.hist[p].newCount = @ + 1, !.hist[p].newSeq = rank],
                        l, l, p)

OnAuthorized(s, p) ==
  LET l == s.pipes[p].type
      rank == 1 + Cardinality({ q \in DOMAIN s.hist : s.hist[q].newCount > 0 })
  IN activateSocketPipe([s EXCEPT !.hist[p].newCount = @ + 1, !.hist[p].newSeq = rank],
                        OtherListener(l), l, p)

\* mutant: only the length of the first chunk is checked
_verifyAuthorization_LengthOnly(s, p) ==
  LET pipe == s.pipes[p]
      keyLen == Len(pipe.secret)
  IN IF pipe.authorized THEN s
     ELSE IF pipe.secret # <<>>
       THEN IF Len(pipe.buffer) = 0 THEN s
            ELSE IF Len(pipe.buffer[1]) >= keyLen
              THEN OnAuthorized([s EXCEPT !.pipes[p].buffer[1] = BufferSlice(@, keyLen),
                                          !.pipes[p].authorized = TRUE], p)
              ELSE SocketPipe_terminate(s, p)
       ELSE OnAuthorized([s EXCEPT !.pipes[p].authorized = TRUE], p)

\* mutant: no return after terminate(), the pipe is authorized all the same
_verifyAuthorization_NoReturn(s, p) ==
  LET pipe == s.pipes[p]
      keyLen == Len(pipe.secret)
  IN IF pipe.authorized THEN s
     ELSE IF pipe.secret # <<>>
       THEN IF Len(pipe.buffer) = 0 THEN s
            ELSE IF Len(pipe.buffer[1]) >= keyLen
                    /\ BufferToString(pipe.buffer[1], 0, keyLen) = pipe.secret
              THEN OnAuthorized([s EXCEPT !.pipes[p].buffer[1] = BufferSlice(@, keyLen),
                                          !.pipes[p].authorized = TRUE], p)
              ELSE OnAuthorized([SocketPipe_terminate(s, p)
                                   EXCEPT !.pipes[p].authorized = TRUE], p)
       ELSE OnAuthorized([s EXCEPT !.pipes[p].authorized = TRUE], p)

\* mutant: no test of this.authorized, every call verifies again
_verifyAuthorization_NoGuard(s, p) ==
  LET pipe == s.pipes[p]
      keyLen == Len(pipe.secret)
  IN IF pipe.secret # <<>>
       THEN IF Len(pipe.buffer) = 0 THEN s
            ELSE IF Len(pipe.buffer[1]) >= keyLen
                    /\ BufferToString(pipe.buffer[1], 0, keyLen) = pipe.secret
              THEN OnAuthorized([s EXCEPT !.pipes[p].buffer[1] = BufferSlice(@, keyLen),
                                          !.pipes[p].authorized = TRUE], p)
              ELSE SocketPipe_terminate(s, p)
       ELSE OnAuthorized([s EXCEPT !.pipes[p].authorized = TRUE], p)

_verifyAuthorization(s, p) ==
  LET pipe == s.pipes[p]
      keyLen == Len(pipe.secret)
  IN IF pipe.authorized THEN s
     ELSE IF pipe.secret # <<>>
       THEN IF Len(pipe.buffer) = 0 THEN s
            ELSE IF Len(pipe.buffer[1]) >= keyLen
                    /\ BufferToString(pipe.buffer[1], 0, keyLen) = pipe.secret
              THEN OnAuthorized([s EXCEPT !.pipes[p].buffer[1] = BufferSlice(@, keyLen),
                                          !.pipes[p].authorized = TRUE], p)
              ELSE SocketPipe_terminate(s, p)
       ELSE OnAuthorized([s EXCEPT !.pipes[p].authorized = TRUE], p)

\* the 'data' listener of _registerSocketEventHandlers
OnData(s, p, data) ==
  IF ~s.pipes[p].authorized \/ s.pipes[p].pairedSocket = 0
  THEN _verifyAuthorization([s EXCEPT !.pipes[p].buffer = Append(@, data)], p)
  ELSE SocketWrite(s, s.pipes[p].pairedSocket, data)

\* mutant: the paired socket is not destroyed
OnClose_NoDestroy(s, p) == _removeSocketPipe(s, s.pipes[p].type, p)

\* mutant: the paired socket is destroyed and 'close' is not emitted
OnClose_NoEmit(s, p) ==
  IF s.pipes[p].pairedSocket # 0 THEN SocketDestroy(s, s.pipes[p].pairedSocket) ELSE s

\* the 'close' listener of _registerSocketEventHandlers, then the 'close'
\* listener of _createSocketPipe
OnClose(s, p) ==
  LET s1 == IF s.pipes[p].pairedSocket # 0
            THEN SocketDestroy(s, s.pipes[p].pairedSocket) ELSE s
  IN _removeSocketPipe(s1, s.pipes[p].type, p)

\* socketPipe.terminate() for every pipe of the sequence
RECURSIVE TerminateEach(_, _)
TerminateEach(s, seq) ==
  IF seq = <<>> THEN s
  ELSE TerminateEach(SocketPipe_terminate(s, Head(seq)), Tail(seq))

\* the pipes of the arrays of a queue object, key after key
RECURSIVE QueuedPipes(_, _)
QueuedPipes(queues, keys) ==
  IF keys = {} THEN <<>>
  ELSE LET k == CHOOSE x \in keys : TRUE
       IN queues[k] \o QueuedPipes(queues, keys \ {k})

\* SocketListener.terminate: relayServer.close() is the listening flag of the
\* action; terminate() for the pending pipes, then for the active pipes
SocketListener_terminate(s, this) ==
  TerminateEach(TerminateEach(s, QueuedPipes(s.pending[this], PropKeys)),
                QueuedPipes(s.active[this], PropKeys))

\* mutant: start() registers the handlers without verifying the authorization
_createSocketPipe_NoVerify(s, id, type, certCn) ==
  LET tunnelKey == IF tls[type] THEN fnCertCnToTunnelKey(certCn) ELSE NullKey
      secret == IF type = "relay" THEN relaySecret ELSE <<>>
  IN IF tls[type] /\ ~tls.requestCert[type] THEN [s EXCEPT !.exc = TRUE] ELSE
     [s EXCEPT !.pipes = @ @@ (id :> NewPipe(type, tunnelKey, secret)),
               !.sock = @ @@ (id :> "open"),
               !.out = @ @@ (id :> <<>>),
               !.recv = @ @@ (id :> <<>>),
               !.hist = @ @@ (id :> NewHist)]

\* SocketListener._createSocketPipe: new SocketPipe(...), the listeners, start().
\* With TLS the key is computed from socket.getPeerCertificate().subject.CN; a
\* peer that was not asked for a certificate has none, getPeerCertificate()
\* is then an empty object and reading .CN of its subject throws before the
\* SocketPipe is constructed
_createSocketPipe(s, id, type, certCn) ==
  LET tunnelKey == IF tls[type] THEN fnCertCnToTunnelKey(certCn) ELSE NullKey
      secret == IF type = "relay" THEN relaySecret ELSE <<>>
      s0 == [s EXCEPT !.pipes = @ @@ (id :> NewPipe(type, tunnelKey, secret)),
                      !.sock = @ @@ (id :> "open"),
                      !.out = @ @@ (id :> <<>>),
                      !.recv = @ @@ (id :> <<>>),
                      !.hist = @ @@ (id :> NewHist)]
  IN IF tls[type] /\ ~tls.requestCert[type] THEN [s EXCEPT !.exc = TRUE]
     ELSE _verifyAuthorization(s0, id)

(***************************************************************************)
(* The Relay's transitions: one per event the process handles.             *)
(***************************************************************************)
RelayAssign(s) ==
  /\ pipes' = s.pipes
  /\ sock' = s.sock
  /\ pendingSocketPipes' = s.pending
  /\ activeSocketPipes' = s.active
  /\ out' = s.out
  /\ recv' = s.recv
  /\ hist' = s.hist
  /\ threw' = (threw \/ s.exc)

\* a handler of the Relay: the Agent and the connections are left alone
Commit(s) == RelayAssign(s) /\ UNCHANGED << agentVars, linkVars >>

EmptyQueues == [l \in Listeners |-> [k \in PropKeys |-> <<>>]]

Configured(configs) ==
  \E c \in configs : relaySecret = c.secret /\ tls = c.tls /\ dataLeft = c.data

RelayInit ==
  /\ Configured(Configs)
  /\ socketPipeId = 1
  /\ pipes = <<>>
  /\ sock = <<>>
  /\ pendingSocketPipes = EmptyQueues
  /\ activeSocketPipes = EmptyQueues
  /\ out = <<>>
  /\ recv = <<>>
  /\ hist = <<>>
  /\ threw = FALSE
  /\ listening = TRUE

\* a connection is accepted by one of the two servers
Accept(l, certCn) ==
  /\ listening
  /\ socketPipeId <= MaxPipes
  /\ LET s == _createSocketPipe(RelayState, socketPipeId, l, certCn)
     IN /\ socketPipeId' = IF s.exc THEN socketPipeId ELSE socketPipeId + 1
        /\ Commit(s)
  /\ UNCHANGED << relaySecret, tls, listening, dataLeft >>

\* 'data' on the socket of pipe p
Data(p, data) ==
  /\ dataLeft > 0
  /\ p \in Created
  /\ data \in ChunksFor(pipes[p].secret)
  /\ sock[p] = "open"
  /\ dataLeft' = dataLeft - 1
  /\ Commit(OnData([RelayState EXCEPT !.recv[p] = Append(@, data)], p, data))
  /\ UNCHANGED << relaySecret, tls, socketPipeId, listening >>

\* the peer ends the connection, or the connection fails ('error', which only
\* logs, then 'close'): 'close' on the socket of pipe p
PeerClose(p) ==
  /\ p \in Created
  /\ sock[p] = "open"
  /\ Commit(OnClose([RelayState EXCEPT !.sock[p] = "closed"], p))
  /\ UNCHANGED << relaySecret, tls, socketPipeId, listening, dataLeft >>

\* 'close' on a socket the Relay destroyed
DestroyedClose(p) ==
  /\ p \in Created
  /\ sock[p] = "destroyed"
  /\ Commit(OnClose([RelayState EXCEPT !.sock[p] = "closed"], p))
  /\ UNCHANGED << relaySecret, tls, socketPipeId, listening, dataLeft >>

\* NATTraversalServer.terminate
Terminate ==
  /\ listening
  /\ listening' = FALSE
  /\ Commit(SocketListener_terminate(SocketListener_terminate(RelayState, "relay"), "public"))
  /\ UNCHANGED << relaySecret, tls, socketPipeId, dataLeft >>

RelayNext ==
  \/ Terminate
  \/ \E l \in Listeners, certCn \in CertCNs : Accept(l, certCn)
  \/ \E p \in PipeIds, data \in AllChunks : Data(p, data)
  \/ \E p \in PipeIds : PeerClose(p)
  \/ \E p \in PipeIds : DestroyedClose(p)

\* options.timeout is set and the socket of pipe p has been idle for that
\* long: 'timeout' on the socket of p, an event no listener is registered for
SocketTimeout(p) ==
  /\ p \in Created
  /\ sock[p] = "open"
  /\ ~hist[p].timedOut
  /\ Commit([RelayState EXCEPT !.hist[p].timedOut = TRUE])
  /\ UNCHANGED << relaySecret, tls, socketPipeId, listening, dataLeft >>

\* 'data' on the socket of a paired pipe p, and pairedSocket.write(data) fails
\* (the connection of the paired socket is broken): write() does not throw,
\* the paired socket emits 'error', which its 'error' listener logs, and is
\* destroyed by the failure; its 'close' event comes later
WriteError(p, data) ==
  /\ dataLeft > 0
  /\ p \in Created
  /\ data \in ChunksFor(pipes[p].secret)
  /\ sock[p] = "open"
  /\ pipes[p].authorized /\ pipes[p].pairedSocket # 0
  /\ sock[pipes[p].pairedSocket] = "open"
  /\ dataLeft' = dataLeft - 1
  /\ Commit(SocketDestroy([RelayState EXCEPT !.recv[p] = Append(@, data),
                                             !.hist[p].writeFailed = TRUE],
                          pipes[p].pairedSocket))
  /\ UNCHANGED << relaySecret, tls, socketPipeId, listening >>

\* the Relay with connections that fail under a write
WriteErrorNext ==
  \/ RelayNext
  \/ \E p \in PipeIds, data \in AllChunks : WriteError(p, data)

\* the Relay with idle timeouts
IdleNext ==
  \/ RelayNext
  \/ \E p \in PipeIds : SocketTimeout(p)

(***************************************************************************)
(* The earlier SocketPipe, which sets a timer in start() instead of the    *)
(* timeout of the socket; its listeners keep one pending and one active    *)
(* array each, as the listeners above do when TLS is off.                  *)
(***************************************************************************)
\* SocketPipe._prepareTimeoutHandler, options.timeout being set
_prepareTimeoutHandler(s, p) == [s EXCEPT !.pipes[p].timer = "armed"]

\* the callback of the timer of _prepareTimeoutHandler
TimeoutCallback(s, p) ==
  LET s1 == [s EXCEPT !.pipes[p].timer = "fired"]
  IN IF s.pipes[p].secret # <<>> THEN SocketPipe_terminate(s1, p) ELSE s1

\* SocketListener._createSocketPipe: new SocketPipe(...), the listeners,
\* start(), which prepares the timer and registers the handlers
TimedCreateSocketPipe(s, id, type) ==
  LET secret == IF type = "relay" THEN relaySecret ELSE <<>>
      s0 == [s EXCEPT !.pipes = @ @@ (id :> NewPipe(type, NullKey, secret)),
                      !.sock = @ @@ (id :> "open"),
                      !.out = @ @@ (id :> <<>>),
                      !.recv = @ @@ (id :> <<>>),
                      !.hist = @ @@ (id :> NewHist)]
  IN _verifyAuthorization(_prepareTimeoutHandler(s0, id), id)

\* a connection is accepted by one of the two servers
TimedAccept(l) ==
  /\ listening
  /\ socketPipeId <= MaxPipes
  /\ socketPipeId' = socketPipeId + 1
  /\ Commit(TimedCreateSocketPipe(RelayState, socketPipeId, l))
  /\ UNCHANGED << relaySecret, tls, listening, dataLeft >>

\* the timer of pipe p fires, options.timeout after start()
TimerExpires(p) ==
  /\ p \in Created
  /\ pipes[p].timer = "armed"
  /\ Commit(TimeoutCallback(RelayState, p))
  /\ UNCHANGED << relaySecret, tls, socketPipeId, listening, dataLeft >>

TimedInit ==
  /\ RelayInit
  /\ tls = NoTls

TimedNext ==
  \/ Terminate
  \/ \E l \in Listeners : TimedAccept(l)
  \/ \E p \in PipeIds, data \in AllChunks : Data(p, data)
  \/ \E p \in PipeIds : PeerClose(p)
  \/ \E p \in PipeIds : DestroyedClose(p)
  \/ \E p \in PipeIds : TimerExpires(p)

\* the Relay with no connection and no data to come
RelayParked ==
  /\ relaySecret = <<>>
  /\ tls = NoTls
  /\ dataLeft = 0
  /\ socketPipeId = 1
  /\ pipes = <<>>
  /\ sock = <<>>
  /\ pendingSocketPipes = EmptyQueues
  /\ activeSocketPipes = EmptyQueues
  /\ out = <<>>
  /\ recv = <<>>
  /\ hist = <<>>
  /\ threw = FALSE
  /\ listening = TRUE

(***************************************************************************)
(* SocketPipe of the Agent.  relaySocket is "connecting", "open",          *)
(* "destroyed" or "closed"; targetSocket is "undefined" or one of these.   *)
(* listeners: the 'pair' and 'close' listeners of NATTraversalClient are   *)
(* registered on the pipe.                                                 *)
(***************************************************************************)
AgentPipeIds == 1 .. MaxAgentPipes

AgentCreated == 1 .. (agentPipeId - 1)

NewAgentPipe ==
  [ relaySocket |-> "connecting", targetSocket |-> "undefined",
    targetSocketPending |-> TRUE, buffer |-> <<>>, listeners |-> FALSE ]

\* history of one pipe: the runs of the 'pair' listener and of the 'close'
\* listener NATTraversalClient registered on it, whether the connect
\* callback of its relay socket has run, the number of chunks in the
\* buffer when the connect callback of its target socket ran, and the bytes
\* its target socket has received
NewAgentHist ==
  [ pair |-> 0, close |-> 0, connected |-> FALSE, preLen |-> 0, targetIn |-> <<>> ]

AgentState ==
  [ pipes |-> agentPipes, nextId |-> agentPipeId, socketPipes |-> socketPipes,
    timers |-> timers, relayOut |-> relayOut, targetOut |-> targetOut,
    hist |-> agentHist ]

Live(sk) == sk \in { "connecting", "open" }

\* relaySocket.destroy()
RelayDestroy(s, p) ==
  IF Live(s.pipes[p].relaySocket) THEN [s EXCEPT !.pipes[p].relaySocket = "destroyed"] ELSE s

\* targetSocket.destroy()
TargetDestroy(s, p) ==
  IF Live(s.pipes[p].targetSocket) THEN [s EXCEPT !.pipes[p].targetSocket = "destroyed"] ELSE s

\* relaySocket.write(data)
RelayWrite(s, p, data) ==
  IF s.pipes[p].relaySocket = "open" THEN [s EXCEPT !.relayOut[p] = @ \o data] ELSE s

\* targetSocket.write(data)
TargetWrite(s, p, data) ==
  IF s.pipes[p].targetSocket = "open" THEN [s EXCEPT !.targetOut[p] = @ \o data] ELSE s

RECURSIVE TargetWriteAll(_, _, _)
TargetWriteAll(s, p, chunks) ==
  IF chunks = <<>> THEN s
  ELSE TargetWriteAll(TargetWrite(s, p, Head(chunks)), p, Tail(chunks))

\* SocketPipe.terminate of the Agent
Agent_terminate(s, p) == RelayDestroy([s EXCEPT !.pipes[p].listeners = FALSE], p)

\* mutant: the secret is written twice
_requestAuthorization_Twice(s, p) ==
  IF agentSecret # <<>>
  THEN RelayWrite(RelayWrite(s, p, Utf8Encode(agentSecret)), p, Utf8Encode(agentSecret))
  ELSE s

_requestAuthorization(s, p) ==
  IF agentSecret # <<>> THEN RelayWrite(s, p, Utf8Encode(agentSecret)) ELSE s

\* mutant: the buffer is cleared without being written
_handleTargetEndConnection_NoReplay(s, p) ==
  [s EXCEPT !.pipes[p].targetSocket = "open",
            !.pipes[p].targetSocketPending = FALSE,
            !.hist[p].preLen = Len(s.pipes[p].buffer),
            !.pipes[p].buffer = <<>>]

_handleTargetEndConnection(s, p) ==
  LET s1 == [s EXCEPT !.pipes[p].targetSocket = "open",
                      !.pipes[p].targetSocketPending = FALSE,
                      !.hist[p].preLen = Len(s.pipes[p].buffer)]
  IN [TargetWriteAll(s1, p, s1.pipes[p].buffer) EXCEPT !.pipes[p].buffer = <<>>]

_openTargetEnd(s, p) == [s EXCEPT !.pipes[p].targetSocket = "connecting"]

\* NATTraversalClient._createSocketPipe: new SocketPipe (which starts to
\* connect to the relay), push, and the 'pair' and 'close' listeners
Agent_createSocketPipe(s) ==
  LET id == s.nextId
  IN [s EXCEPT !.pipes = @ @@ (id :> [NewAgentPipe EXCEPT !.listeners = TRUE]),
               !.nextId = id + 1,
               !.socketPipes = Append(@, id),
               !.relayOut = @ @@ (id :> <<>>),
               !.targetOut = @ @@ (id :> <<>>),
               !.hist = @ @@ (id :> NewAgentHist)]

Agent_removeSocketPipe(s, p) == [s EXCEPT !.socketPipes = RemoveFirst(@, p)]

\* emit('pair'): the 'pair' listener of _createSocketPipe
EmitPair(s, p) ==
  IF s.pipes[p].listeners
  THEN Agent_createSocketPipe([s EXCEPT !.hist[p].pair = @ + 1])
  ELSE s

\* emit('close'): the 'close' listener of _createSocketPipe
EmitClose(s, p) ==
  IF s.pipes[p].listeners
  THEN [Agent_removeSocketPipe(s, p) EXCEPT !.timers = @ + 1, !.hist[p].close = @ + 1]
  ELSE s

\* mutant: the first chunk opens the target end and emits no 'pair'
OnRelayData_NoPair(s, p, data) ==
  LET s1 == IF s.pipes[p].targetSocket = "undefined"
            THEN _openTargetEnd(s, p) ELSE s
  IN IF s1.pipes[p].targetSocketPending
     THEN [s1 EXCEPT !.pipes[p].buffer = Append(@, data)]
     ELSE TargetWrite(s1, p, data)

\* mutant: the target end is opened while the target socket is not connected
OnRelayData_OpenWhilePending(s, p, data) ==
  LET s1 == IF s.pipes[p].targetSocketPending
            THEN EmitPair(_openTargetEnd(s, p), p) ELSE s
  IN IF s1.pipes[p].targetSocketPending
     THEN [s1 EXCEPT !.pipes[p].buffer = Append(@, data)]
     ELSE TargetWrite(s1, p, data)

\* the 'data' listener of the relay socket
OnRelayData(s, p, data) ==
  LET s1 == IF s.pipes[p].targetSocket = "undefined"
            THEN EmitPair(_openTargetEnd(s, p), p) ELSE s
  IN IF s1.pipes[p].targetSocketPending
     THEN [s1 EXCEPT !.pipes[p].buffer = Append(@, data)]
     ELSE TargetWrite(s1, p, data)

\* mutant: 'close' is emitted for a pipe in use as well
OnRelayClose_AlwaysEmit(s, p) ==
  IF s.pipes[p].targetSocket # "undefined"
  THEN EmitClose(TargetDestroy(s, p), p)
  ELSE EmitClose(s, p)

\* the 'close' listener of the relay socket
OnRelayClose(s, p) ==
  IF s.pipes[p].targetSocket # "undefined" THEN TargetDestroy(s, p) ELSE EmitClose(s, p)

\* mutant: every pipe forwards to the relay socket of the first pipe
OnTargetData_Shared(s, p, data) == RelayWrite(s, 1, data)

\* the 'data' listener of the target socket
OnTargetData(s, p, data) == RelayWrite(s, p, data)

\* does the handler of 'data' on p create a pipe?
PairCreates(p) == agentPipes[p].targetSocket = "undefined" /\ agentPipes[p].listeners

\* does the handler of 'close' on the relay socket of p set a replacement timer?
CloseSchedules(p) == agentPipes[p].targetSocket = "undefined" /\ agentPipes[p].listeners

\* the run has an id left for one more pipe, the pending timers counted
Spare == agentPipeId + timers <= MaxAgentPipes

(***************************************************************************)
(* The Agent's transitions.                                                *)
(***************************************************************************)
AgentAssign(s) ==
  /\ agentPipes' = s.pipes
  /\ agentPipeId' = s.nextId
  /\ socketPipes' = s.socketPipes
  /\ timers' = s.timers
  /\ relayOut' = s.relayOut
  /\ targetOut' = s.targetOut
  /\ agentHist' = s.hist

\* a handler of the Agent: the Relay and the connections are left alone
AgentCommit(s) == AgentAssign(s) /\ UNCHANGED << relayVars, linkVars >>

AgentInit ==
  /\ agentSecret \in Secrets
  /\ relayNumConn \in 1 .. MaxNumConn
  /\ started = FALSE
  /\ agentPipeId = 1
  /\ agentPipes = <<>>
  /\ socketPipes = <<>>
  /\ terminating = FALSE
  /\ timers = 0
  /\ relayOut = <<>>
  /\ targetOut = <<>>
  /\ relayIn = <<>>
  /\ agentHist = <<>>
  /\ agentDataLeft = MaxAgentData

\* the Agent not started, with no data to come
AgentParked ==
  /\ agentSecret = <<>>
  /\ relayNumConn = 1
  /\ started = FALSE
  /\ agentPipeId = 1
  /\ agentPipes = <<>>
  /\ socketPipes = <<>>
  /\ terminating = FALSE
  /\ timers = 0
  /\ relayOut = <<>>
  /\ targetOut = <<>>
  /\ relayIn = <<>>
  /\ agentHist = <<>>
  /\ agentDataLeft = 0

RECURSIVE CreateN(_, _)
CreateN(s, n) == IF n = 0 THEN s ELSE CreateN(Agent_createSocketPipe(s), n - 1)

\* NATTraversalClient.start
AgentStart ==
  /\ ~started
  /\ started' = TRUE
  /\ relayIn' = [i \in 1 .. relayNumConn |-> <<>>]
  /\ AgentCommit(CreateN(AgentState, relayNumConn))
  /\ UNCHANGED << agentSecret, relayNumConn, terminating, agentDataLeft >>

\* NATTraversalClient.terminate
AgentTerminate ==
  /\ started /\ ~terminating
  /\ terminating' = TRUE
  /\ LET RECURSIVE TerminateAll(_, _)
         TerminateAll(s, ps) ==
           IF ps = <<>> THEN s ELSE TerminateAll(Agent_terminate(s, Head(ps)), Tail(ps))
     IN AgentCommit(TerminateAll(AgentState, socketPipes))
  /\ UNCHANGED << agentSecret, relayNumConn, started, relayIn, agentDataLeft >>

\* mutant: the callback does not look at this.terminating
TimerFire_IgnoresTerminating ==
  /\ timers > 0
  /\ agentPipeId <= MaxAgentPipes
  /\ AgentCommit(Agent_createSocketPipe([AgentState EXCEPT !.timers = @ - 1]))
  /\ relayIn' = relayIn @@ (agentPipeId :> <<>>)
  /\ UNCHANGED << agentSecret, relayNumConn, started, terminating, agentDataLeft >>

\* the callback of setTimeout(..., 5000) in the 'close' listener
TimerFire ==
  /\ timers > 0
  /\ terminating \/ agentPipeId <= MaxAgentPipes
  /\ LET s == [AgentState EXCEPT !.timers = @ - 1]
     IN IF terminating
        THEN AgentCommit(s) /\ relayIn' = relayIn
        ELSE AgentCommit(Agent_createSocketPipe(s)) /\ relayIn' = relayIn @@ (agentPipeId :> <<>>)
  /\ UNCHANGED << agentSecret, relayNumConn, started, terminating, agentDataLeft >>

\* the connect callback of the relay socket
RelayConnect(p) ==
  /\ p \in AgentCreated
  /\ agentPipes[p].relaySocket = "connecting"
  /\ AgentCommit(_requestAuthorization(
        [AgentState EXCEPT !.pipes[p].relaySocket = "open", !.hist[p].connected = TRUE], p))
  /\ UNCHANGED << agentSecret, relayNumConn, started, terminating, relayIn, agentDataLeft >>

\* 'data' on the relay socket
RelayData(p, data) ==
  /\ p \in AgentCreated
  /\ agentDataLeft > 0
  /\ agentPipes[p].relaySocket = "open"
  /\ PairCreates(p) => Spare
  /\ agentDataLeft' = agentDataLeft - 1
  /\ relayIn' = IF PairCreates(p)
                THEN [relayIn EXCEPT ![p] = Append(@, data)] @@ (agentPipeId :> <<>>)
                ELSE [relayIn EXCEPT ![p] = Append(@, data)]
  /\ AgentCommit(OnRelayData(AgentState, p, data))
  /\ UNCHANGED << agentSecret, relayNumConn, started, terminating >>

\* the relay ends the connection: 'close' on the relay socket
RelayPeerClose(p) ==
  /\ p \in AgentCreated
  /\ agentPipes[p].relaySocket = "open"
  /\ CloseSchedules(p) => Spare
  /\ AgentCommit(OnRelayClose([AgentState EXCEPT !.pipes[p].relaySocket = "closed"], p))
  /\ UNCHANGED << agentSecret, relayNumConn, started, terminating, relayIn, agentDataLeft >>

\* 'close' on a relay socket the Agent destroyed
RelayDestroyedClose(p) ==
  /\ p \in AgentCreated
  /\ agentPipes[p].relaySocket = "destroyed"
  /\ AgentCommit(OnRelayClose([AgentState EXCEPT !.pipes[p].relaySocket = "closed"], p))
  /\ UNCHANGED << agentSecret, relayNumConn, started, terminating, relayIn, agentDataLeft >>

\* the connection to the relay fails: 'error' (the listener calls terminate())
\* and then 'close' on the relay socket, which the failure has destroyed
RelayError(p) ==
  /\ p \in AgentCreated
  /\ Live(agentPipes[p].relaySocket)
  /\ AgentCommit(OnRelayClose(
        Agent_terminate([AgentState EXCEPT !.pipes[p].relaySocket = "closed"], p), p))
  /\ UNCHANGED << agentSecret, relayNumConn, started, terminating, relayIn, agentDataLeft >>

\* 'timeout' on the relay socket (when options.relayTimeout is set)
RelayTimeout(p) ==
  /\ p \in AgentCreated
  /\ agentPipes[p].relaySocket = "open"
  /\ AgentCommit(Agent_terminate(AgentState, p))
  /\ UNCHANGED << agentSecret, relayNumConn, started, terminating, relayIn, agentDataLeft >>

\* the connect callback of the target socket
TargetConnect(p) ==
  /\ p \in AgentCreated
  /\ agentPipes[p].targetSocket = "connecting"
  /\ AgentCommit(_handleTargetEndConnection(AgentState, p))
  /\ UNCHANGED << agentSecret, relayNumConn, started, terminating, relayIn, agentDataLeft >>

\* 'data' on the target socket
TargetData(p, data) ==
  /\ p \in AgentCreated
  /\ agentDataLeft > 0
  /\ agentPipes[p].targetSocket = "open"
  /\ agentDataLeft' = agentDataLeft - 1
  /\ AgentCommit(OnTargetData([AgentState EXCEPT !.hist[p].targetIn = @ \o data], p, data))
  /\ UNCHANGED << agentSecret, relayNumConn, started, terminating, relayIn >>

\* the target service ends the connection: 'close' on the target socket, for
\* which the pipe registers no listener
TargetPeerClose(p) ==
  /\ p \in AgentCreated
  /\ agentPipes[p].targetSocket = "open"
  /\ AgentCommit([AgentState EXCEPT !.pipes[p].targetSocket = "closed"])
  /\ UNCHANGED << agentSecret, relayNumConn, started, terminating, relayIn, agentDataLeft >>

\* 'close' on a target socket the Agent destroyed: no listener
TargetDestroyedClose(p) ==
  /\ p \in AgentCreated
  /\ agentPipes[p].targetSocket = "destroyed"
  /\ AgentCommit([AgentState EXCEPT !.pipes[p].targetSocket = "closed"])
  /\ UNCHANGED << agentSecret, relayNumConn, started, terminating, relayIn, agentDataLeft >>

\* the connection to the target fails: 'error' on the target socket, which
\* the failure has destroyed ('close' follows, no listener)
TargetError(p) ==
  /\ p \in AgentCreated
  /\ Live(agentPipes[p].targetSocket)
  /\ AgentCommit(Agent_terminate([AgentState EXCEPT !.pipes[p].targetSocket = "closed"], p))
  /\ UNCHANGED << agentSecret, relayNumConn, started, terminating, relayIn, agentDataLeft >>

\* 'timeout' on the target socket (when options.targetTimeout is set)
TargetTimeout(p) ==
  /\ p \in AgentCreated
  /\ agentPipes[p].targetSocket = "open"
  /\ AgentCommit(Agent_terminate(AgentState, p))
  /\ UNCHANGED << agentSecret, relayNumConn, started, terminating, relayIn, agentDataLeft >>

AgentNext ==
  \/ AgentStart
  \/ AgentTerminate
  \/ TimerFire
  \/ \E p \in AgentPipeIds : RelayConnect(p)
  \/ \E p \in AgentPipeIds, data \in Payloads : RelayData(p, data)
  \/ \E p \in AgentPipeIds : RelayPeerClose(p)
  \/ \E p \in AgentPipeIds : RelayDestroyedClose(p)
  \/ \E p \in AgentPipeIds : RelayError(p)
  \/ \E p \in AgentPipeIds : RelayTimeout(p)
  \/ \E p \in AgentPipeIds : TargetConnect(p)
  \/ \E p \in AgentPipeIds, data \in Payloads : TargetData(p, data)
  \/ \E p \in AgentPipeIds : TargetPeerClose(p)
  \/ \E p \in AgentPipeIds : TargetDestroyedClose(p)
  \/ \E p \in AgentPipeIds : TargetError(p)
  \/ \E p \in AgentPipeIds : TargetTimeout(p)

(***************************************************************************)
(* Specifications.                                                         *)
(***************************************************************************)
\* no connection between the Agent and the Relay
Unlinked == link = <<>> /\ toRelay = <<>> /\ toAgent = <<>>

Init == RelayInit /\ AgentParked /\ Unlinked

Next == RelayNext

\* the Relay
Spec == Init /\ [][Next]_vars

AgentSpecInit == AgentInit /\ RelayParked /\ Unlinked

\* the Agent
AgentSpec == AgentSpecInit /\ [][AgentNext]_vars

\* Node.js emits 'close' for every socket that was destroyed and runs the
\* callback of every timer that was set
AgentFairSpec ==
  /\ AgentSpec
  /\ WF_vars(TimerFire)
  /\ \A p \in AgentPipeIds :
       WF_vars(RelayDestroyedClose(p)) /\ WF_vars(TargetDestroyedClose(p))

CertInit ==
  /\ Configured(CertConfigs)
  /\ socketPipeId = 1
  /\ pipes = <<>>
  /\ sock = <<>>
  /\ pendingSocketPipes = EmptyQueues
  /\ activeSocketPipes = EmptyQueues
  /\ out = <<>>
  /\ recv = <<>>
  /\ hist = <<>>
  /\ threw = FALSE
  /\ listening = TRUE
  /\ AgentParked
  /\ Unlinked

\* an exception no handler catches ends the process
CertNext ==
  \/ ~threw /\ Terminate
  \/ ~threw /\ \E l \in Listeners, certCn \in CertCNs : Accept(l, certCn)
  \/ ~threw /\ \E p \in PipeIds, data \in AllChunks : Data(p, data)
  \/ ~threw /\ \E p \in PipeIds : PeerClose(p)
  \/ ~threw /\ \E p \in PipeIds : DestroyedClose(p)

\* the Relay with TLS on the relay listener, with and without client
\* certificates
CertSpec == CertInit /\ [][CertNext]_vars

\* the Relay with connections that fail under a write; Node.js emits 'close'
\* for every socket that was destroyed
WriteErrorSpec ==
  /\ Init /\ [][WriteErrorNext]_vars
  /\ \A p \in PipeIds : WF_vars(DestroyedClose(p))

\* the Relay with idle timeouts configured
IdleSpec == Init /\ [][IdleNext]_vars

TimedSpecInit == TimedInit /\ AgentParked /\ Unlinked

\* the Relay of the earlier SocketPipe, with timeouts configured
TimedSpec == TimedSpecInit /\ [][TimedNext]_vars

\* Node.js emits 'close' for every socket that was destroyed
FairSpec == Spec /\ \A p \in PipeIds : WF_vars(DestroyedClose(p))

(***************************************************************************)
(* The Relay and the Agent together, without TLS: the Agent's pipes        *)
(* connect to the relay listener, public clients to the public listener,   *)
(* and the bytes one side writes to a connection are the chunks the other  *)
(* side receives.  The Agent runs without relayTimeout and targetTimeout   *)
(* (the command line client sets none), the target service accepts the     *)
(* connections and sends nothing, and the connections do not fail: the     *)
(* events are those of the public clients and what follows from them.      *)
(***************************************************************************)
SysPipeIds == 1 .. MaxSysPipes

Linked(p) == p \in DOMAIN link

SysInit ==
  /\ \E sec \in { <<>>, <<"a", "b">> } : relaySecret = sec /\ agentSecret = sec
  /\ tls = NoTls
  /\ dataLeft = MaxSysData
  /\ socketPipeId = 1
  /\ pipes = <<>>
  /\ sock = <<>>
  /\ pendingSocketPipes = EmptyQueues
  /\ activeSocketPipes = EmptyQueues
  /\ out = <<>>
  /\ recv = <<>>
  /\ hist = <<>>
  /\ threw = FALSE
  /\ listening = TRUE
  /\ relayNumConn \in 1 .. MaxNumConn
  /\ started = FALSE
  /\ agentPipeId = 1
  /\ agentPipes = <<>>
  /\ socketPipes = <<>>
  /\ terminating = FALSE
  /\ timers = 0
  /\ relayOut = <<>>
  /\ targetOut = <<>>
  /\ relayIn = <<>>
  /\ agentHist = <<>>
  /\ agentDataLeft = 0
  /\ Unlinked

\* the connection of Agent pipe p to the relay listener is made: the Relay's
\* server accepts it and the connect callback of the relay socket runs (two
\* events of two processes that read nothing of one another)
SysConnect(p) ==
  /\ p \in AgentCreated
  /\ agentPipes[p].relaySocket = "connecting"
  /\ listening
  /\ socketPipeId <= MaxSysPipes
  /\ socketPipeId' = socketPipeId + 1
  /\ RelayAssign(_createSocketPipe(RelayState, socketPipeId, "relay", "A"))
  /\ AgentAssign(_requestAuthorization(
        [AgentState EXCEPT !.pipes[p].relaySocket = "open", !.hist[p].connected = TRUE], p))
  /\ link' = link @@ (p :> socketPipeId)
  /\ toRelay' = toRelay @@ (p :> 0)
  /\ toAgent' = toAgent @@ (p :> 0)
  /\ UNCHANGED << relaySecret, tls, listening, dataLeft, agentSecret, relayNumConn,
                  started, terminating, relayIn, agentDataLeft >>

\* a public client connects
SysPublicConnect ==
  /\ listening
  /\ socketPipeId <= MaxSysPipes
  /\ socketPipeId' = socketPipeId + 1
  /\ Commit(_createSocketPipe(RelayState, socketPipeId, "public", "A"))
  /\ UNCHANGED << relaySecret, tls, listening, dataLeft >>

\* a public client sends a chunk
SysPublicData(q, data) ==
  /\ q \in Created
  /\ pipes[q].type = "public"
  /\ Data(q, data)

\* a public client ends its connection
SysPublicClose(q) ==
  /\ q \in Created
  /\ pipes[q].type = "public"
  /\ PeerClose(q)

\* the Relay receives what Agent pipe p has written to its relay socket
SysAgentToRelay(p) ==
  /\ Linked(p)
  /\ toRelay[p] < Len(relayOut[p])
  /\ sock[link[p]] = "open"
  /\ LET data == SubSeq(relayOut[p], toRelay[p] + 1, Len(relayOut[p]))
     IN RelayAssign(OnData([RelayState EXCEPT !.recv[link[p]] = Append(@, data)], link[p], data))
  /\ toRelay' = [toRelay EXCEPT ![p] = Len(relayOut[p])]
  /\ UNCHANGED << relaySecret, tls, socketPipeId, listening, dataLeft, agentVars,
                  link, toAgent >>

\* Agent pipe p receives what the Relay has written to its connection
SysRelayToAgent(p) ==
  /\ Linked(p)
  /\ toAgent[p] < Len(out[link[p]])
  /\ agentPipes[p].relaySocket = "open"
  /\ PairCreates(p) => Spare
  /\ LET data == SubSeq(out[link[p]], toAgent[p] + 1, Len(out[link[p]]))
     IN /\ AgentAssign(OnRelayData(AgentState, p, data))
        /\ relayIn' = IF PairCreates(p)
                      THEN [relayIn EXCEPT ![p] = Append(@, data)] @@ (agentPipeId :> <<>>)
                      ELSE [relayIn EXCEPT ![p] = Append(@, data)]
  /\ toAgent' = [toAgent EXCEPT ![p] = Len(out[link[p]])]
  /\ UNCHANGED << agentSecret, relayNumConn, started, terminating, agentDataLeft,
                  relayVars, link, toRelay >>

\* the Relay has destroyed or closed its end of the connection of Agent
\* pipe p: 'close' on the relay socket of p
SysAgentSeesClose(p) ==
  /\ Linked(p)
  /\ sock[link[p]] # "open"
  /\ RelayPeerClose(p)

SysNext ==
  \/ AgentStart
  \/ TimerFire
  \/ SysPublicConnect
  \/ \E p \in AgentPipeIds : SysConnect(p)
  \/ \E q \in SysPipeIds, data \in Payloads : SysPublicData(q, data)
  \/ \E q \in SysPipeIds : SysPublicClose(q)
  \/ \E q \in SysPipeIds : DestroyedClose(q)
  \/ \E p \in AgentPipeIds : SysAgentToRelay(p)
  \/ \E p \in AgentPipeIds : SysRelayToAgent(p)
  \/ \E p \in AgentPipeIds : SysAgentSeesClose(p)
  \/ \E p \in AgentPipeIds : TargetConnect(p)

\* the Relay and the Agent
SysSpec == SysInit /\ [][SysNext]_vars

\* the Relay with a secret and an Agent that keeps MaxNumConn connections,
\* with targets that answer
TunnelsInit ==
  /\ relaySecret = <<"a", "b">> /\ agentSecret = <<"a", "b">>
  /\ tls = NoTls
  /\ dataLeft = MaxSysData
  /\ socketPipeId = 1
  /\ pipes = <<>>
  /\ sock = <<>>
  /\ pendingSocketPipes = EmptyQueues
  /\ activeSocketPipes = EmptyQueues
  /\ out = <<>>
  /\ recv = <<>>
  /\ hist = <<>>
  /\ threw = FALSE
  /\ listening = TRUE
  /\ relayNumConn = MaxNumConn
  /\ started = FALSE
  /\ agentPipeId = 1
  /\ agentPipes = <<>>
  /\ socketPipes = <<>>
  /\ terminating = FALSE
  /\ timers = 0
  /\ relayOut = <<>>
  /\ targetOut = <<>>
  /\ relayIn = <<>>
  /\ agentHist = <<>>
  /\ agentDataLeft = MaxTunnelData
  /\ Unlinked

TunnelsNext ==
  \/ SysNext
  \/ \E p \in AgentPipeIds, data \in Payloads : TargetData(p, data)

\* the Relay, the Agent and the targets
TunnelsSpec == TunnelsInit /\ [][TunnelsNext]_vars

(***************************************************************************)
(* Vocabulary of the properties.                                           *)
(***************************************************************************)
InSeq(x, seq) == \E i \in 1 .. Len(seq) : seq[i] = x

InPendingOf(l, p) == \E k \in PropKeys : InSeq(p, pendingSocketPipes[l][k])
InActiveOf(l, p) == \E k \in PropKeys : InSeq(p, activeSocketPipes[l][k])
InPending(p) == \E l \in Listeners : InPendingOf(l, p)
InActive(p) == \E l \in Listeners : InActiveOf(l, p)

IsPrefix(a, b) == Len(a) <= Len(b) /\ SubSeq(b, 1, Len(a)) = a

Paired(p) == pipes[p].pairedSocket # 0

\* the bytes of the secret, as an agent writes them
SecretBytes(p) == Utf8Encode(pipes[p].secret)

\* the byte stream received on p after the secret
StreamAfterSecret(p) == BufferSlice(Flatten(recv[p]), Len(SecretBytes(p)))

\* p has to present a secret
Gated(p) == pipes[p].type = "relay" /\ pipes[p].secret # <<>>

(***************************************************************************)
(* C1: no pipe is ever paired twice: pairedSocket is assigned at most once *)
(* per pipe (activate never throws), it never changes once it is set, and  *)
(* a paired pipe is in no pending queue.                                   *)
(***************************************************************************)
C1_PairedAtMostOnce ==
  /\ [](/\ ~threw
        /\ \A p \in Created :
             /\ hist[p].pairCount <= 1
             /\ Paired(p) => ~InPending(p))
  /\ [][\A p \in Created :
          Paired(p) => pipes'[p].pairedSocket = pipes[p].pairedSocket]_vars

\* a pipe arrived after two others were paired, on their key, and waits
C1_Witness ==
  \E p, q, r \in Created :
    /\ pipes[p].pairedSocket = q /\ pipes[q].pairedSocket = p
    /\ hist[p].pairCount = 1 /\ hist[q].pairCount = 1
    /\ hist[r].newSeq > hist[p].newSeq /\ hist[r].newSeq > hist[q].newSeq
    /\ PropKey(pipes[r].tunnelKey) = PropKey(pipes[p].tunnelKey)
    /\ InPending(r)

(***************************************************************************)
(* C2: with a secret configured, a relay-side pipe whose stream does not   *)
(* start with the secret is not authorized, was never emitted as 'new', is *)
(* in no queue and is not paired; whatever was written to a public-side    *)
(* socket came from a pipe that presented the secret.                      *)
(***************************************************************************)
Presented(p) == IsPrefix(SecretBytes(p), Flatten(recv[p]))

C2_NoSecretNoEntry ==
  /\ \A p \in Created :
       (Gated(p) /\ ~Presented(p)) =>
          /\ ~pipes[p].authorized
          /\ hist[p].newCount = 0
          /\ ~InPending(p) /\ ~InActive(p)
          /\ ~Paired(p) /\ hist[p].pairCount = 0
          /\ \A q \in Created : pipes[q].pairedSocket # p
  /\ \A q \in Created :
       (pipes[q].type = "public" /\ out[q] # <<>>) =>
          \E r \in Created : pipes[r].pairedSocket = q /\ (Gated(r) => Presented(r))

\* a pipe sent something else than the secret while a public pipe that has
\* received bytes waits
C2_Witness ==
  \E p, q \in Created :
    /\ Gated(p) /\ recv[p] # <<>> /\ ~Presented(p)
    /\ pipes[q].type = "public" /\ InPending(q) /\ recv[q] # <<>>

(***************************************************************************)
(* C3: two pipes that are paired carry the same tunnelKey.                 *)
(***************************************************************************)
C3_PairedSameTunnelKey ==
  \A p \in Created :
    Paired(p) => pipes[p].tunnelKey = pipes[pipes[p].pairedSocket].tunnelKey

(***************************************************************************)
(* C4: pairing is FIFO within a tunnel key: the pending pipe that gets     *)
(* paired is the one emitted as 'new' first among the pipes pending in its *)
(* listener under its tunnelKey.                                           *)
(***************************************************************************)
C4_FifoPerTunnelKey ==
  [][\A p \in Created :
       (InPending(p) /\ ~Paired(p) /\ pipes'[p].pairedSocket # 0) =>
          \A q \in Created :
            (InPendingOf(pipes[p].type, q) /\ pipes[q].tunnelKey = pipes[p].tunnelKey)
              => hist[p].newSeq <= hist[q].newSeq]_vars

\* c was paired with p1 while p2, pending under the same key, had come after p1
C4_Witness ==
  \E c, p1, p2 \in Created :
    /\ pipes[c].pairedSocket = p1 /\ pipes[p1].pairedSocket = c
    /\ pipes[p2].type = pipes[p1].type /\ pipes[p2].tunnelKey = pipes[p1].tunnelKey
    /\ InPendingOf(pipes[p2].type, p2)
    /\ hist[p1].newSeq < hist[p2].newSeq /\ hist[p2].newSeq < hist[c].newSeq

(***************************************************************************)
(* C5: what a pipe received before it was paired is written to the socket  *)
(* of its counterpart in arrival order, before what it receives afterwards:*)
(* the bytes written to the counterpart are the stream the pipe received   *)
(* (after the secret), and until the pairing that stream is in the buffer. *)
(* (A counterpart whose socket terminate() had destroyed before the        *)
(* pairing has no connection left to carry what is written to it.)         *)
(***************************************************************************)
C5_BufferedBytesFirst ==
  \A p \in Created :
    /\ (Paired(p) /\ hist[p].toOpen) => out[pipes[p].pairedSocket] = StreamAfterSecret(p)
    /\ (pipes[p].authorized /\ ~Paired(p)) => Flatten(pipes[p].buffer) = StreamAfterSecret(p)

\* a chunk received before the pairing and another one after it
C5_Witness ==
  \E p \in Created :
    /\ Paired(p) /\ hist[p].preLen = 1 /\ Len(recv[p]) = 2
    /\ recv[p][1] # recv[p][2]
    /\ out[pipes[p].pairedSocket] = recv[p][1] \o recv[p][2]

(***************************************************************************)
(* C6: when the first chunk received on a relay-side pipe is the secret S  *)
(* followed by X, the pipe is authorized, and once it is paired the bytes  *)
(* written to its counterpart are X followed by the later chunks.          *)
(***************************************************************************)
C6_SecretStripped ==
  \A p \in Created :
    (Gated(p) /\ recv[p] # <<>> /\ IsPrefix(SecretBytes(p), recv[p][1])) =>
       /\ pipes[p].authorized
       /\ (Paired(p) /\ hist[p].toOpen) => out[pipes[p].pairedSocket] = StreamAfterSecret(p)

(***************************************************************************)
(* C7: when a secret is configured and the first chunk received on a       *)
(* relay-side pipe is at least as long as the secret and does not start    *)
(* with it, the socket is destroyed and the pipe is discarded: it is not   *)
(* authorized, is in no queue, is not paired, and no later chunk is        *)
(* handled for it.                                                         *)
(***************************************************************************)
WrongPrefix(p) ==
  /\ Gated(p) /\ recv[p] # <<>>
  /\ Len(recv[p][1]) >= Len(SecretBytes(p))
  /\ ~IsPrefix(SecretBytes(p), recv[p][1])

C7_MismatchDestroys ==
  \A p \in Created :
    WrongPrefix(p) =>
       /\ sock[p] # "open"
       /\ ~pipes[p].authorized /\ hist[p].newCount = 0
       /\ ~InPending(p) /\ ~InActive(p) /\ ~Paired(p)
       /\ Len(recv[p]) = 1

\* the 'close' of a pipe destroyed for a wrong first chunk has been handled
C7_Witness ==
  \E p \in Created : WrongPrefix(p) /\ sock[p] = "closed" /\ ~pipes[p].authorized

(***************************************************************************)
(* C8, as claimed: when an agent connection writes a wrong secret prefix,  *)
(* nothing of it is forwarded and the connection of the public client that *)
(* waits at the Relay for a counterpart is closed by the Relay.            *)
(***************************************************************************)
\* q is a public-side pipe that was waiting when p was accepted and still waits
WaitsSince(q, p) ==
  /\ q \in Created /\ p \in Created /\ q < p
  /\ pipes[q].type = "public" /\ ~Paired(q) /\ InPending(q)

C8_PublicClosedOnWrongSecret ==
  \A p \in PipeIds, q \in PipeIds :
    (p \in Created /\ WrongPrefix(p) /\ WaitsSince(q, p))
       ~> (q \in Created /\ sock[q] # "open")

(***************************************************************************)
(* C8, amended: when an agent connection writes a wrong secret prefix,     *)
(* nothing of it is forwarded and the Relay destroys the agent connection  *)
(* itself; the step that handles the wrong prefix leaves every other       *)
(* socket, and so the waiting public client's, as it was.                  *)
(***************************************************************************)
C8_WrongSecretDestroysAgentOnly ==
  /\ [](\A p \in Created :
          WrongPrefix(p) =>
             /\ sock[p] # "open"
             /\ \A q \in Created : pipes[q].pairedSocket # p)
  /\ [][\A p \in PipeIds :
          (p \in Created /\ ~WrongPrefix(p) /\ WrongPrefix(p)') =>
             /\ out' = out
             /\ \A q \in Created : q # p => sock'[q] = sock[q]]_vars

\* the agent connection with the wrong prefix is gone and the public client
\* that was waiting still waits, its socket open
C8_Witness ==
  \E p, q \in Created :
    /\ WrongPrefix(p) /\ sock[p] = "closed"
    /\ WaitsSince(q, p) /\ sock[q] = "open" /\ recv[q] # <<>>

(***************************************************************************)
(* C9: once the 'close' of one socket of a paired tunnel has been handled, *)
(* the other socket is not open any more and the pipe is in no active      *)
(* queue; eventually neither pipe of the tunnel is in an active queue.     *)
(***************************************************************************)
ClosedHalf(p) == p \in Created /\ sock[p] = "closed" /\ Paired(p)

C9_BrokenHalfTearsDown ==
  /\ [](\A p \in Created :
          ClosedHalf(p) => sock[pipes[p].pairedSocket] # "open" /\ ~InActive(p))
  /\ \A p \in PipeIds :
       ClosedHalf(p) ~> (ClosedHalf(p) /\ ~InActive(p) /\ ~InActive(pipes[p].pairedSocket))

\* both halves of a tunnel that carried bytes are closed and out of the queues
C9_Witness ==
  \E p \in Created :
    /\ ClosedHalf(p) /\ sock[pipes[p].pairedSocket] = "closed"
    /\ out[pipes[p].pairedSocket] # <<>>
    /\ ~InActive(p) /\ ~InActive(pipes[p].pairedSocket)

(***************************************************************************)
(* C10: on the Agent, for a pipe in use (its target socket exists), once   *)
(* the relay socket or the target socket has closed, by a close or by an   *)
(* error, both sockets of the pipe get destroyed.                          *)
(***************************************************************************)
InUse(p) == p \in AgentCreated /\ agentPipes[p].targetSocket # "undefined"

C10_AgentBrokenHalfDestroysBoth ==
  \A p \in AgentPipeIds :
    (InUse(p) /\ (agentPipes[p].relaySocket = "closed" \/ agentPipes[p].targetSocket = "closed"))
      ~> (InUse(p) /\ ~Live(agentPipes[p].relaySocket) /\ ~Live(agentPipes[p].targetSocket))

(***************************************************************************)
(* Vocabulary of the Agent's pool.                                         *)
(***************************************************************************)
\* p is a warm pool member: created, not consumed (no target socket yet),
\* its relay socket connecting or connected
Warm(p) ==
  /\ p \in AgentCreated
  /\ agentPipes[p].targetSocket = "undefined"
  /\ Live(agentPipes[p].relaySocket)

WarmCount == Cardinality({ p \in AgentPipeIds : Warm(p) })

\* the step handles a 'data' event of the relay socket of p
HandlesRelayData(p) ==
  p \in AgentCreated /\ Len(relayIn'[p]) = Len(relayIn[p]) + 1

(***************************************************************************)
(* C11: the step that handles the first chunk a warm pool member receives  *)
(* from the relay creates exactly one pipe, in that very step (no timer),  *)
(* a warm one the Agent holds in socketPipes, so that the number of warm   *)
(* members is what it was; a step that handles a later chunk of the same   *)
(* pipe creates no pipe and sets no timer.                                 *)
(***************************************************************************)
C11_FirstByteReplacesOnce ==
  [][\A p \in AgentPipeIds :
       HandlesRelayData(p) =>
         IF relayIn[p] = <<>>
         THEN /\ agentPipeId' = agentPipeId + 1
              /\ timers' = timers
              /\ agentPipes'[agentPipeId].relaySocket = "connecting"
              /\ agentPipes'[agentPipeId].targetSocket = "undefined"
              /\ InSeq(agentPipeId, socketPipes')
              /\ WarmCount' = WarmCount
         ELSE /\ agentPipeId' = agentPipeId
              /\ timers' = timers
              /\ WarmCount' = WarmCount]_vars

\* a pipe has received two chunks and the Agent has created one pipe since
\* start(), the replacement of that pipe
C11_Witness ==
  \E p \in AgentCreated :
    /\ Len(relayIn[p]) = 2
    /\ agentHist[p].pair = 1
    /\ agentPipeId = relayNumConn + 2
    /\ timers = 0 /\ \A q \in AgentCreated : agentHist[q].close = 0

(***************************************************************************)
(* C12: when the relay socket of a pool member that has received no chunk  *)
(* closes while the Agent is not terminating, the step removes the pipe    *)
(* from socketPipes, sets exactly one replacement timer and creates no     *)
(* pipe itself; a timer that fires while the Agent is not terminating      *)
(* creates exactly one pipe.                                               *)
(***************************************************************************)
\* the step handles the 'close' of the relay socket of p, a pipe not in use
ClosesUnused(p) ==
  /\ p \in AgentCreated
  /\ agentPipes[p].targetSocket = "undefined"
  /\ agentPipes[p].relaySocket # "closed"
  /\ agentPipes'[p].relaySocket = "closed"

C12_PoolCloseSchedulesOne ==
  /\ [][\A p \in AgentPipeIds :
          (ClosesUnused(p) /\ ~terminating) =>
             /\ ~InSeq(p, socketPipes')
             /\ timers' = timers + 1
             /\ agentPipeId' = agentPipeId]_vars
  /\ [][(timers' = timers - 1 /\ ~terminating) => agentPipeId' = agentPipeId + 1]_vars

(***************************************************************************)
(* C13: when the connection of a pool member to the relay has failed (the  *)
(* connect failed or the relay socket reported an error) while the Agent   *)
(* is not terminating, the Agent retries: a further pipe gets created,     *)
(* unless the Agent terminates.                                            *)
(***************************************************************************)
\* the relay socket of p, a pipe not in use, is closed after terminate()
FailedUnused(p) ==
  /\ p \in AgentCreated
  /\ agentPipes[p].targetSocket = "undefined"
  /\ agentPipes[p].relaySocket = "closed"
  /\ ~agentPipes[p].listeners

C13_ErrorRetries ==
  \A p \in AgentPipeIds, n \in 1 .. MaxAgentPipes :
    (FailedUnused(p) /\ ~terminating /\ agentPipeId = n /\ timers = 0)
      ~> (terminating \/ agentPipeId > n)

(***************************************************************************)
(* C14: as long as no connect to the relay fails, whenever the Agent is    *)
(* started and not terminating the number of warm pool members gets back   *)
(* to relayNumConn (or the Agent terminates), whatever consumptions,       *)
(* closes, errors and idle timeouts the pool members go through.           *)
(***************************************************************************)
\* no connect to the relay has failed: a relay socket that is not connecting
\* any more had its connect callback run, or was destroyed by the Agent
RelayReachable ==
  \A p \in AgentCreated :
    agentPipes[p].relaySocket = "closed" =>
      (agentHist[p].connected \/ terminating)

C14_PoolReturnsToN ==
  ([]RelayReachable) =>
    ((started /\ ~terminating) ~> (terminating \/ WarmCount = relayNumConn))

(***************************************************************************)
(* C15: the warm pool members, those still connecting included, together   *)
(* with the replacement timers that have not fired, are never more than    *)
(* relayNumConn; a pipe causes at most one replacement, by its 'pair' or   *)
(* by its 'close', never by both.                                          *)
(***************************************************************************)
C15_PoolNeverExceedsN ==
  /\ WarmCount + timers <= relayNumConn
  /\ \A p \in AgentCreated : agentHist[p].pair + agentHist[p].close <= 1

\* one pipe was replaced after its close, its replacement was consumed and
\* replaced by its 'pair', and then lost its relay connection too
C15_Witness ==
  \E p, q \in AgentCreated :
    /\ agentHist[p].close = 1 /\ agentHist[p].pair = 0
    /\ agentHist[q].pair = 1 /\ agentPipes[q].relaySocket = "closed"
    /\ WarmCount = relayNumConn

(***************************************************************************)
(* C16: once NATTraversalClient.terminate() has run, no pipe is created    *)
(* any more (a replacement timer that fires afterwards creates nothing)    *)
(* and, in the end, no pipe has a relay socket or a target socket that is  *)
(* connecting or open.                                                     *)
(***************************************************************************)
C16_TerminateStopsAgent ==
  /\ [][terminating => (agentPipeId' = agentPipeId /\ timers' <= timers)]_vars
  /\ terminating ~>
       [](\A p \in AgentCreated :
            ~Live(agentPipes[p].relaySocket) /\ ~Live(agentPipes[p].targetSocket))

\* terminate() ran while a replacement timer was pending and a pipe was in
\* use; the timer has fired and created nothing, the sockets are closed
C16_Witness ==
  /\ terminating /\ timers = 0
  /\ \E p \in AgentCreated : agentHist[p].close = 1
  /\ \E p \in AgentCreated : agentPipes[p].targetSocket = "closed" /\ targetOut[p] # <<>>
  /\ agentPipeId - 1 = relayNumConn + Cardinality({ p \in AgentCreated : agentHist[p].pair = 1 })
  /\ \A p \in AgentCreated :
       agentPipes[p].relaySocket = "closed" /\ ~Live(agentPipes[p].targetSocket)

(***************************************************************************)
(* C17: once NATTraversalServer.terminate() has run, no pipe has an open   *)
(* socket, whatever its state was (not authorized, pending or active);     *)
(* afterwards no pipe becomes pending, none becomes paired and nothing is  *)
(* written to any socket.                                                  *)
(***************************************************************************)
C17_TerminateDestroysEveryPipe ==
  /\ [](~listening => \A p \in Created : sock[p] # "open")
  /\ [][~listening =>
          /\ out' = out
          /\ \A p \in Created :
               /\ InPending(p)' => InPending(p)
               /\ Paired(p)' => Paired(p)]_vars

(***************************************************************************)
(* C18: a step that handles the close of the socket of a pipe (after a     *)
(* close by the peer, an error or a destroy), or that destroys a pipe for  *)
(* a failed authorization, changes that pipe and its paired counterpart    *)
(* only: for every other pipe the fields (authorized, pairedSocket,        *)
(* buffer), the socket and the bytes written to it stay as they were, the  *)
(* queues keep the other pipes in the same order, and the listeners keep   *)
(* accepting (no handler throws).                                          *)
(***************************************************************************)
\* the step handles the 'close' of the socket of p
HandlesClose(p) ==
  p \in Created /\ sock[p] # "closed" /\ sock'[p] = "closed"

\* the step handles a chunk of p and destroys p, which is not authorized
FailsAuthorization(p) ==
  /\ p \in Created /\ ~pipes[p].authorized
  /\ Len(recv'[p]) = Len(recv[p]) + 1
  /\ sock[p] = "open" /\ sock'[p] = "destroyed"

\* the queue without the pipes of the set
Without(queue, set) == SelectSeq(queue, LAMBDA x : x \notin set)

C18_FailureTouchesOnePair ==
  [][\A p \in PipeIds :
       (HandlesClose(p) \/ FailsAuthorization(p)) =>
          LET pair == {p, pipes[p].pairedSocket} IN
          /\ listening' = listening
          /\ ~threw'
          /\ \A q \in Created \ pair :
               pipes'[q] = pipes[q] /\ sock'[q] = sock[q] /\ out'[q] = out[q]
          /\ \A l \in Listeners, k \in PropKeys :
               /\ Without(pendingSocketPipes'[l][k], pair) = Without(pendingSocketPipes[l][k], pair)
               /\ Without(activeSocketPipes'[l][k], pair) = Without(activeSocketPipes[l][k], pair)]_vars

\* one half of a tunnel is closed while a third pipe, of the same listener,
\* waits with bytes in its buffer
C18_Witness ==
  \E p, r \in Created :
    /\ ClosedHalf(p) /\ r \notin {p, pipes[p].pairedSocket}
    /\ pipes[r].type = pipes[p].type
    /\ InPending(r) /\ pipes[r].buffer # <<>> /\ sock[r] = "open"

(***************************************************************************)
(* C20: with a secret configured, the step that handles a first chunk      *)
(* shorter than the secret leaves the pipe not authorized and its socket   *)
(* open: the pipe waits for more data.                                     *)
(***************************************************************************)
C20_ShortFirstChunkWaits ==
  [][\A p \in PipeIds :
       (/\ p \in Created /\ Gated(p)
        /\ recv[p] = <<>> /\ Len(recv'[p]) = 1
        /\ Len(recv'[p][1]) < Len(SecretBytes(p)))
         => (sock'[p] = "open" /\ ~pipes'[p].authorized)]_vars

(***************************************************************************)
(* C19: as long as no public client has sent a chunk and no connection has *)
(* been closed, the Agent creates no pipe beyond the relayNumConn of       *)
(* start() and sets no timer, whatever number of its connections the       *)
(* Relay has paired with public clients; once relayNumConn public clients  *)
(* are paired, no agent connection is pending at the Relay and every       *)
(* other public client is pending, unpaired.                               *)
(***************************************************************************)
PublicPipes == { q \in Created : pipes[q].type = "public" }

\* no public client has sent anything and no connection was closed
Silent ==
  /\ \A q \in PublicPipes : recv[q] = <<>>
  /\ \A r \in Created : sock[r] = "open"
  /\ \A p \in AgentCreated : Live(agentPipes[p].relaySocket)

PairedPublic == { q \in PublicPipes : Paired(q) }

C19_SilentClientsStarvePool ==
  (started /\ Silent) =>
     /\ agentPipeId = relayNumConn + 1
     /\ timers = 0
     /\ \A p \in AgentCreated : agentPipes[p].targetSocket = "undefined"
     /\ Cardinality(PairedPublic) <= relayNumConn
     /\ Cardinality(PairedPublic) = relayNumConn =>
          /\ \A k \in PropKeys : pendingSocketPipes["relay"][k] = <<>>
          /\ \A q \in PublicPipes \ PairedPublic :
               InPendingOf("public", q) /\ out[q] = <<>>

\* two agent connections are paired with two silent public clients and a
\* third public client waits
C19_Witness ==
  /\ started /\ Silent
  /\ relayNumConn = 2 /\ Cardinality(PairedPublic) = 2
  /\ \E q \in PublicPipes : ~Paired(q) /\ InPendingOf("public", q)
  /\ \A p \in AgentCreated : Linked(p) /\ Paired(link[p])

(***************************************************************************)
(* C21: the lookup, dequeue, activate or enqueue of activateSocketPipe     *)
(* runs within one handler, so whatever the order of the arrivals and the  *)
(* closes on the two listeners, the pending queue of the relay listener    *)
(* and the pending queue of the public listener for the same tunnel key    *)
(* are never both non-empty: two compatible pipes never both wait.         *)
(***************************************************************************)
C21_NeverBothWaiting ==
  \A k \in PropKeys :
    pendingSocketPipes["relay"][k] = <<>> \/ pendingSocketPipes["public"][k] = <<>>

\* an arrival found its counterpart waiting and was paired with it, and a
\* later arrival of the same listener waits
C21_Witness ==
  \E p, r \in Created :
    /\ Paired(p) /\ hist[p].newSeq > hist[pipes[p].pairedSocket].newSeq
    /\ InPending(r) /\ pipes[r].type = pipes[p].type
    /\ PropKey(pipes[r].tunnelKey) = PropKey(pipes[p].tunnelKey)
    /\ hist[r].newSeq > hist[p].newSeq

\* the places of pipe p in the queues: [map, listener, key, index]
Places(p) ==
  { pl \in [ map : {"pending", "active"}, l : Listeners, k : PropKeys, i : 1 .. MaxPipes + 1 ] :
      LET queue == IF pl.map = "pending" THEN pendingSocketPipes[pl.l][pl.k]
                   ELSE activeSocketPipes[pl.l][pl.k]
      IN pl.i <= Len(queue) /\ queue[pl.i] = p }

(***************************************************************************)
(* C22: in every reachable state of the Relay a pipe is in exactly one of  *)
(* the states unauthorized, pending, active, destroyed: it has at most one *)
(* place in the queues (so it is never pending and active at once, never   *)
(* twice in a queue, never in the maps of both listeners), that place is   *)
(* in its own listener's maps, a pipe that is not authorized or whose      *)
(* close was handled has no place, and an authorized pipe whose close was  *)
(* not handled is pending if it is unpaired and active if it is paired.    *)
(***************************************************************************)
C22_OneStatePerPipe ==
  \A p \in Created :
    /\ Cardinality(Places(p)) <= 1
    /\ \A pl \in Places(p) :
         /\ pl.l = pipes[p].type
         /\ pl.k = PropKey(pipes[p].tunnelKey)
         /\ (pl.map = "active") = Paired(p)
    /\ (~pipes[p].authorized \/ sock[p] = "closed") => Places(p) = {}
    /\ (pipes[p].authorized /\ sock[p] # "closed") => Places(p) # {}

\* a pending pipe, and a pair of which one pipe is closed and out of the
\* queues while the other, destroyed, is still in its active queue
C22_Witness ==
  \E q, r, a \in Created :
    /\ InPending(q) /\ ~InActive(q)
    /\ Paired(r) /\ pipes[r].pairedSocket = a
    /\ sock[r] = "closed" /\ Places(r) = {}
    /\ sock[a] = "destroyed" /\ InActive(a) /\ ~InPending(a)

\* p is in an array of listener l of the queue object
InQueuesOf(queues, l, p) == \E k \in PropKeys : InSeq(p, queues[l][k])

\* p becomes pending in this step
StartsWaiting(p) ==
  /\ p \in DOMAIN pipes'
  /\ (p \in Created => ~InPending(p))
  /\ InPending(p)'

(***************************************************************************)
(* C23, as stated: a newly authorized pipe P accepted by listener L that   *)
(* finds no pending counterpart for its tunnel key K is enqueued into the  *)
(* pending map of the other listener L', not of its own listener.          *)
(***************************************************************************)
C23_WaitsAtOtherListener ==
  [][ \A p \in PipeIds :
        StartsWaiting(p) =>
          /\ InSeq(p, pendingSocketPipes'[OtherListener(pipes'[p].type)][PropKey(pipes'[p].tunnelKey)])
          /\ ~InQueuesOf(pendingSocketPipes', pipes'[p].type, p) ]_vars

(***************************************************************************)
(* C23, amended: a newly authorized pipe P accepted by listener L that     *)
(* finds no pending counterpart for its tunnel key K (the pending queue of *)
(* L' for K is empty) is enqueued at the end of L.pending[K]: it waits in  *)
(* the pending map of its own listener and in no map of the other one.     *)
(***************************************************************************)
C23_WaitsAtOwnListener ==
  [][ \A p \in PipeIds :
        StartsWaiting(p) =>
          LET l == pipes'[p].type
              k == PropKey(pipes'[p].tunnelKey)
          IN /\ pendingSocketPipes[OtherListener(l)][k] = <<>>
             /\ pendingSocketPipes'[l][k] = Append(pendingSocketPipes[l][k], p)
             /\ ~InQueuesOf(pendingSocketPipes', OtherListener(l), p)
             /\ \A m \in Listeners : ~InQueuesOf(activeSocketPipes', m, p) ]_vars

\* an agent's pipe that presented the secret waits behind another one
C23_Witness ==
  \E p, q \in Created :
    /\ Gated(p) /\ Gated(q)
    /\ pendingSocketPipes["relay"][PropKey(pipes[p].tunnelKey)] = <<q, p>>

\* pairedSocket of p is assigned in this step
BecomesPaired(p) ==
  /\ p \in DOMAIN pipes'
  /\ (p \in Created => ~Paired(p))
  /\ pipes'[p].pairedSocket # 0

(***************************************************************************)
(* C24: when activateSocketPipe pairs an arriving pipe P with a pending    *)
(* pipe Q, the pairing is symmetric (P.pairedSocket is the socket of Q and *)
(* Q.pairedSocket the socket of P), the two pipes belong to different      *)
(* listeners and have the same key K, each is in the active queue of its   *)
(* own listener for K, and neither is in any pending queue.                *)
(***************************************************************************)
C24_PairingSymmetric ==
  [][ \A p \in PipeIds :
        BecomesPaired(p) =>
          LET q == pipes'[p].pairedSocket
              l == pipes'[p].type
              k == PropKey(pipes'[p].tunnelKey)
          IN /\ q \in DOMAIN pipes' /\ q # p
             /\ pipes'[q].pairedSocket = p
             /\ pipes'[q].type = OtherListener(l)
             /\ PropKey(pipes'[q].tunnelKey) = k
             /\ InSeq(p, activeSocketPipes'[l][k])
             /\ InSeq(q, activeSocketPipes'[OtherListener(l)][k])
             /\ \A m \in Listeners :
                  /\ ~InQueuesOf(pendingSocketPipes', m, p)
                  /\ ~InQueuesOf(pendingSocketPipes', m, q) ]_vars

\* an arriving agent was paired with the public pipe that waited: both are
\* open and active, while a second public pipe keeps waiting
C24_Witness ==
  \E p, q, r \in Created :
    /\ pipes[p].type = "relay" /\ pipes[q].type = "public"
    /\ pipes[p].pairedSocket = q /\ pipes[q].pairedSocket = p
    /\ hist[q].newSeq < hist[p].newSeq
    /\ sock[p] = "open" /\ sock[q] = "open"
    /\ InActiveOf("relay", p) /\ InActiveOf("public", q)
    /\ r # q /\ InPendingOf("public", r)

\* a 'data' event of p is handled in this step
HandlesData(p) == p \in Created /\ Len(recv'[p]) = Len(recv[p]) + 1

(***************************************************************************)
(* C25: the buffer of a Relay pipe is drained to the counterpart once, in  *)
(* the step that pairs the pipe (the chunks a waiting pipe had buffered    *)
(* are appended, in order, to what its counterpart's socket was sent, and  *)
(* the buffer is emptied), the buffer is empty in every state in which the *)
(* pipe is paired, and a chunk that arrives after the pairing is written   *)
(* to the counterpart in the same step and never buffered.                 *)
(***************************************************************************)
C25_BufferDrainedOnce ==
  [][ \A p \in PipeIds :
        /\ (p \in DOMAIN pipes' /\ pipes'[p].pairedSocket # 0) => pipes'[p].buffer = <<>>
        /\ (p \in Created /\ InPending(p) /\ BecomesPaired(p) /\ hist'[p].toOpen) =>
             LET q == pipes'[p].pairedSocket
             IN out'[q] = (IF q \in Created THEN out[q] ELSE <<>>) \o Flatten(pipes[p].buffer)
        /\ (p \in Created /\ Paired(p) /\ HandlesData(p)) =>
             LET q == pipes[p].pairedSocket
                 data == recv'[p][Len(recv'[p])]
             IN /\ pipes'[p].buffer = <<>>
                /\ out'[q] = IF sock[q] = "open" THEN out[q] \o data ELSE out[q] ]_vars

\* a pipe that had buffered a chunk while it waited received another chunk
\* after it was paired: the buffer is empty and the counterpart was sent both
C25_Witness ==
  \E p \in Created :
    /\ Paired(p)
    /\ hist[p].preLen = 1 /\ Len(recv[p]) = 2
    /\ pipes[p].buffer = <<>>
    /\ out[pipes[p].pairedSocket] = StreamAfterSecret(p)
    /\ StreamAfterSecret(p) # <<>>

(***************************************************************************)
(* C26: a Relay pipe emits 'authorized' at most once over its lifetime,    *)
(* and exactly once if it is authorized, so it is handed to                *)
(* activateSocketPipe at most once; its authorized flag never goes back    *)
(* from true to false, whatever data arrives afterwards.                   *)
(***************************************************************************)
C26_AuthorizedOnce ==
  [][ \A p \in PipeIds :
        /\ p \in DOMAIN pipes' =>
             hist'[p].newCount = (IF pipes'[p].authorized THEN 1 ELSE 0)
        /\ (p \in Created /\ pipes[p].authorized) =>
             /\ pipes'[p].authorized
             /\ hist'[p].newCount = hist[p].newCount ]_vars

\* an agent's pipe that presented the secret and waits has received a second
\* chunk, which the 'data' handler passed to _verifyAuthorization again
C26_Witness ==
  \E p \in Created :
    /\ Gated(p) /\ pipes[p].authorized /\ ~Paired(p)
    /\ Len(recv[p]) = 2
    /\ hist[p].newCount = 1
    /\ sock[p] = "open"

(***************************************************************************)
(* C27: a pipe created with no secret (every pipe of the public listener,  *)
(* and every pipe of the relay listener when relaySecret is empty) is      *)
(* authorized in the step that creates it, before any chunk is received on *)
(* it, and what it receives is neither inspected nor stripped: no chunk    *)
(* makes the Relay destroy its socket, and the bytes it buffers and the    *)
(* bytes written to its counterpart are the whole stream it received.      *)
(***************************************************************************)
C27_NoSecretAuthorizedAtStart ==
  [][ \A p \in PipeIds :
        (p \in DOMAIN pipes' /\ pipes'[p].secret = <<>>) =>
          /\ pipes'[p].authorized
          /\ hist'[p].newCount = 1
          /\ p \notin Created => recv'[p] = <<>>
          /\ (p \in Created /\ HandlesData(p)) => sock'[p] = sock[p]
          /\ pipes'[p].pairedSocket = 0 => Flatten(pipes'[p].buffer) = Flatten(recv'[p])
          /\ (pipes'[p].pairedSocket # 0 /\ hist'[p].toOpen) =>
               out'[pipes'[p].pairedSocket] = Flatten(recv'[p]) ]_vars

\* a secret is configured for the relay listener: a public pipe received a
\* chunk while it waited, and the agent's pipe it was paired with got it whole
C27_Witness ==
  \E p \in Created :
    /\ relaySecret # <<>>
    /\ pipes[p].type = "public" /\ Paired(p)
    /\ hist[p].preLen = 1
    /\ out[pipes[p].pairedSocket] = Flatten(recv[p])

(***************************************************************************)
(* C28: when the close of a pipe is handled the pipe is removed from the   *)
(* queues by identity: every queue is what it was without that pipe, the   *)
(* other pipes in their order. A pipe whose close has been handled is in   *)
(* no queue, and it is not dequeued and paired afterwards: its             *)
(* pairedSocket stays what it was.                                         *)
(***************************************************************************)
C28_RemovalKeepsOrder ==
  [][ \A p \in PipeIds :
        /\ HandlesClose(p) =>
             \A l \in Listeners, k \in PropKeys :
               /\ pendingSocketPipes'[l][k] = Without(pendingSocketPipes[l][k], {p})
               /\ activeSocketPipes'[l][k] = Without(activeSocketPipes[l][k], {p})
        /\ (p \in DOMAIN sock' /\ sock'[p] = "closed") =>
             \A l \in Listeners :
               /\ ~InQueuesOf(pendingSocketPipes', l, p)
               /\ ~InQueuesOf(activeSocketPipes', l, p)
        /\ (p \in Created /\ sock[p] = "closed") =>
             pipes'[p].pairedSocket = pipes[p].pairedSocket ]_vars

\* of three pipes that waited in one queue the oldest was closed, unpaired:
\* the two others wait in their order of arrival
C28_Witness ==
  \E p, q, r \in Created :
    /\ sock[p] = "closed" /\ ~Paired(p) /\ pipes[p].authorized
    /\ hist[p].newSeq < hist[q].newSeq /\ hist[q].newSeq < hist[r].newSeq
    /\ pendingSocketPipes[pipes[p].type][PropKey(pipes[p].tunnelKey)] = <<q, r>>

(***************************************************************************)
(* C29: with an idle timeout configured, a pipe whose connection has been  *)
(* idle for that long is torn down by the Relay: once the socket of a pipe *)
(* has emitted 'timeout' the socket is no longer open (and, as for a close *)
(* by the peer, the socket of its counterpart is destroyed with it).       *)
(***************************************************************************)
C29_IdleTimeoutTearsDown ==
  \A p \in Created :
    hist[p].timedOut =>
      /\ sock[p] # "open"
      /\ Paired(p) => sock[pipes[p].pairedSocket] # "open"

\* the timer of p is run in this step
TimerRuns(p) ==
  p \in Created /\ pipes[p].timer = "armed" /\ pipes'[p].timer = "fired"

(***************************************************************************)
(* C30: when the timer is armed on a Relay pipe with a non-empty secret,   *)
(* the pipe is destroyed by the timer if it has not been authorized by     *)
(* then, and a pipe that was authorized before the timer ran is not        *)
(* destroyed by it: its socket is left as it is.                           *)
(***************************************************************************)
C30_TimerSparesAuthorized ==
  [][ \A p \in PipeIds :
        (TimerRuns(p) /\ Gated(p)) =>
          /\ ~pipes[p].authorized => sock'[p] # "open"
          /\ pipes[p].authorized => sock'[p] = sock[p] ]_vars

(***************************************************************************)
(* C31: a pipe accepted on a listener without TLS, or on a TLS listener    *)
(* that does not request client certificates, is created with the null     *)
(* tunnel key (accepting the connection creates the pipe: the connection   *)
(* listener does not throw), and fnCertCnToTunnelKey is applied only to    *)
(* the subject of a verified peer certificate: a pipe has another key only *)
(* on a TLS listener that requests client certificates, and the key is     *)
(* then the function's value for a common name.                            *)
(***************************************************************************)
C31_NullKeyWithoutClientCert ==
  /\ ~threw
  /\ \A p \in Created :
       IF tls[pipes[p].type] /\ tls.requestCert[pipes[p].type]
       THEN \E cn \in CertCNs : pipes[p].tunnelKey = fnCertCnToTunnelKey(cn)
       ELSE pipes[p].tunnelKey = NullKey

(***************************************************************************)
(* C32: on every connection of the Agent to the Relay with a secret        *)
(* configured the secret is the first thing written: what was written to   *)
(* the relay socket is empty or starts with the bytes of the secret, it    *)
(* starts with them once the connect callback has run, and the secret is   *)
(* written once: the connect callback writes exactly the secret to a       *)
(* socket nothing was written to, and every other step appends at most a   *)
(* chunk received from the target.                                         *)
(***************************************************************************)
C32_SecretWrittenFirst ==
  [][ \A p \in AgentPipeIds :
        (p \in DOMAIN agentPipes' /\ agentSecret # <<>>) =>
          LET S == Utf8Encode(agentSecret)
          IN /\ relayOut'[p] = <<>> \/ IsPrefix(S, relayOut'[p])
             /\ agentHist'[p].connected => IsPrefix(S, relayOut'[p])
             /\ p \in AgentCreated =>
                  IF ~agentHist[p].connected /\ agentHist'[p].connected
                  THEN relayOut[p] = <<>> /\ relayOut'[p] = S
                  ELSE \E d \in Payloads \cup { <<>> } : relayOut'[p] = relayOut[p] \o d ]_vars

\* the secret, then what the target sent
C32_Witness ==
  \E p \in AgentCreated :
    /\ agentSecret # <<>>
    /\ IsPrefix(Utf8Encode(agentSecret), relayOut[p])
    /\ Len(relayOut[p]) > Len(Utf8Encode(agentSecret))

(***************************************************************************)
(* C33: on the Agent the bytes that arrive from the relay before the       *)
(* connection to the target is made are buffered, and written to the       *)
(* target in their order of arrival when it is made, before any later      *)
(* byte: while the target socket connects, nothing was written to it and   *)
(* the buffer holds the stream received from the relay; while it is open,  *)
(* what was written to it is that stream, whole and in order; and at any   *)
(* time what was written to it is a prefix of that stream.                 *)
(***************************************************************************)
C33_TargetGetsRelayStream ==
  \A p \in AgentCreated :
    /\ IsPrefix(targetOut[p], Flatten(relayIn[p]))
    /\ agentPipes[p].targetSocket \in { "undefined", "connecting" } =>
         targetOut[p] = <<>> /\ Flatten(agentPipes[p].buffer) = Flatten(relayIn[p])
    /\ agentPipes[p].targetSocket = "open" =>
         targetOut[p] = Flatten(relayIn[p]) /\ agentPipes[p].buffer = <<>>

\* a chunk was buffered, the target was connected, and another chunk came
C33_Witness ==
  \E p \in AgentCreated :
    /\ agentPipes[p].targetSocket = "open"
    /\ agentHist[p].preLen = 1 /\ Len(relayIn[p]) = 2
    /\ relayIn[p][1] # relayIn[p][2]
    /\ targetOut[p] = relayIn[p][1] \o relayIn[p][2]

(***************************************************************************)
(* C34: an Agent pipe opens its connection to the target at most once, and *)
(* only upon the first chunk from the relay: a pipe has a target socket    *)
(* exactly when it has received a chunk (a warm pool member has none), a   *)
(* target socket once created is never replaced by a new connection, and   *)
(* the 'pair' listener has run once for a pipe that has a target socket    *)
(* and never for a pipe that has none.                                     *)
(***************************************************************************)
C34_TargetOpenedOnce ==
  [][ \A p \in AgentPipeIds :
        p \in DOMAIN agentPipes' =>
          /\ (agentPipes'[p].targetSocket = "undefined") = (relayIn'[p] = <<>>)
          /\ agentHist'[p].pair = (IF agentPipes'[p].targetSocket = "undefined" THEN 0 ELSE 1)
          /\ (p \in AgentCreated /\ agentPipes'[p].targetSocket = "connecting") =>
               /\ agentPipes[p].targetSocket \in { "undefined", "connecting" }
               /\ agentPipes[p].targetSocket = "undefined" => relayIn[p] = <<>>
          /\ (p \in AgentCreated /\ agentPipes[p].targetSocket # "undefined") =>
               agentPipes'[p].targetSocket # "undefined" ]_vars

\* a pipe received two chunks while its target socket was connecting, and a
\* warm pipe waits beside it
C34_Witness ==
  \E p, q \in AgentCreated :
    /\ agentPipes[p].targetSocket = "open"
    /\ agentHist[p].preLen = 2
    /\ agentHist[p].pair = 1
    /\ Warm(q) /\ InSeq(q, socketPipes) /\ agentPipes[q].relaySocket = "open"

(***************************************************************************)
(* C35: a pipe is a member of the pool (socketPipes) of the Agent only     *)
(* from its creation until it is consumed or terminated: a pipe that has   *)
(* received its first chunk from the relay, or whose connection to the     *)
(* relay has ended, is not in socketPipes.                                 *)
(***************************************************************************)
C35_PoolHoldsOnlyUnconsumed ==
  \A p \in AgentCreated :
    (relayIn[p] # <<>> \/ agentPipes[p].relaySocket = "closed") => ~InSeq(p, socketPipes)

(***************************************************************************)
(* C36: on the Relay an error while writing forwarded bytes to the socket  *)
(* of the counterpart is treated like a close: after a write of a pipe to  *)
(* its paired socket has failed, the sockets of both pipes of the tunnel   *)
(* end up closed and both pipes end up out of the queues.                  *)
(***************************************************************************)
C36_WriteErrorCollapsesTunnel ==
  \A p \in PipeIds :
    (p \in Created /\ hist[p].writeFailed)
      ~> (/\ p \in Created /\ pipes[p].pairedSocket \in Created
          /\ sock[p] = "closed" /\ sock[pipes[p].pairedSocket] = "closed"
          /\ Places(p) = {} /\ Places(pipes[p].pairedSocket) = {})

\* a write failed and the tunnel is gone, while another pipe still waits
C36_Witness ==
  \E p, r \in Created :
    /\ hist[p].writeFailed
    /\ sock[p] = "closed" /\ sock[pipes[p].pairedSocket] = "closed"
    /\ Places(p) = {} /\ Places(pipes[p].pairedSocket) = {}
    /\ InPending(r) /\ sock[r] = "open"

(***************************************************************************)
(* C37: every pairing on the Relay joins one pipe of the relay listener    *)
(* with one pipe of the public listener, never two pipes of the same       *)
(* listener, and the pending and active queues of a listener hold only     *)
(* pipes that this listener accepted.                                      *)
(***************************************************************************)
C37_PairsAcrossListeners ==
  /\ \A p \in Created :
       Paired(p) =>
         /\ pipes[p].pairedSocket \in Created
         /\ pipes[pipes[p].pairedSocket].type = OtherListener(pipes[p].type)
  /\ \A l \in Listeners, k \in PropKeys :
       /\ \A i \in 1 .. Len(pendingSocketPipes[l][k]) :
            pipes[pendingSocketPipes[l][k][i]].type = l
       /\ \A i \in 1 .. Len(activeSocketPipes[l][k]) :
            pipes[activeSocketPipes[l][k][i]].type = l

\* a relay pipe and a public pipe are paired and active while a second relay
\* pipe waits at the relay listener
C37_Witness ==
  \E p, q, r \in Created :
    /\ pipes[p].type = "relay" /\ pipes[q].type = "public"
    /\ pipes[p].pairedSocket = q /\ pipes[q].pairedSocket = p
    /\ InActiveOf("relay", p) /\ InActiveOf("public", q)
    /\ pipes[r].type = "relay" /\ InPendingOf("relay", r)

(***************************************************************************)
(* C38: in every reachable state of the Relay a pipe in a pending queue is *)
(* authorized and unpaired (pairedSocket undefined), and a pipe in an      *)
(* active queue is authorized and paired.                                  *)
(***************************************************************************)
C38_QueuesMatchPipeState ==
  \A p \in Created :
    /\ InPending(p) => pipes[p].authorized /\ pipes[p].pairedSocket = 0
    /\ InActive(p) => pipes[p].authorized /\ pipes[p].pairedSocket # 0

\* a pipe that presented the secret waits unpaired while two other pipes are
\* active, one of them with a closed socket of its counterpart
C38_Witness ==
  \E p, q, r \in Created :
    /\ InPending(p) /\ pipes[p].authorized /\ pipes[p].pairedSocket = 0
    /\ pipes[p].secret # <<>>
    /\ InActive(q) /\ pipes[q].pairedSocket = r /\ sock[r] = "closed"

(***************************************************************************)
(* C39: tunnel isolation.  On the Relay the socket of a pipe is written    *)
(* only bytes its paired pipe received after the secret, and the socket of *)
(* an unpaired pipe is written nothing; on the Agent the target socket of  *)
(* a pipe is written only bytes the relay socket of the same pipe          *)
(* received, and its relay socket only the secret and bytes its own target *)
(* socket received.  From end to end a target gets only bytes of the       *)
(* public client its tunnel is paired with, and that client only bytes of  *)
(* this target.                                                            *)
(***************************************************************************)
C39_TunnelIsolation ==
  /\ \A q \in Created :
       IF Paired(q)
       THEN /\ pipes[q].pairedSocket \in Created
            /\ pipes[pipes[q].pairedSocket].pairedSocket = q
            /\ IsPrefix(out[q], StreamAfterSecret(pipes[q].pairedSocket))
       ELSE out[q] = <<>>
  /\ \A a \in AgentCreated :
       /\ IsPrefix(targetOut[a], Flatten(relayIn[a]))
       /\ IsPrefix(relayOut[a], Utf8Encode(agentSecret) \o agentHist[a].targetIn)
       /\ (Linked(a) /\ Paired(link[a])) =>
            LET q == pipes[link[a]].pairedSocket
            IN /\ IsPrefix(targetOut[a], StreamAfterSecret(q))
               /\ IsPrefix(out[q], agentHist[a].targetIn)
       /\ (Linked(a) /\ ~Paired(link[a])) => targetOut[a] = <<>>

\* two tunnels are up at once; the bytes of the public client of one have
\* reached its target and the answer of the target has reached that client,
\* while the sockets of the other tunnel were written nothing
C39_Witness ==
  \E a, b \in AgentCreated :
    /\ a # b /\ Linked(a) /\ Linked(b)
    /\ Paired(link[a]) /\ Paired(link[b])
    /\ targetOut[a] # <<>> /\ out[pipes[link[a]].pairedSocket] # <<>>
    /\ targetOut[a] # out[pipes[link[a]].pairedSocket]
    /\ sock[link[b]] = "open" /\ sock[pipes[link[b]].pairedSocket] = "open"
    /\ targetOut[b] = <<>> /\ out[pipes[link[b]].pairedSocket] = <<>>
    /\ out[link[b]] = <<>>

====
